---------------------------- MODULE Spec2Model ----------------------------
(***************************************************************************)
(* gmail-promo-agent: the Temporal & Ranking Enricher                      *)
(* (dashboard_generator_fixed.py) and the promo store (database.py).       *)
(*                                                                         *)
(* Texts are TLA+ strings; a character is a string of length 1.  A Python  *)
(* dict is a function whose DOMAIN is the set of keys that are present.    *)
(* A Python "int or None" is a sequence of length at most 1: << >> is      *)
(* None and <<n>> is the integer n.  A datetime is an integer number of    *)
(* clock ticks since 0001-01-01 00:00, TicksPerDay ticks to the day.       *)
(***************************************************************************)
EXTENDS Integers, Sequences, FiniteSets, TLC

VARIABLES
    now,             \* datetime.now(), in ticks
    promos,          \* the batch handed to enrich_promo_data
    result,          \* outcome of the last enrich_promo_data call
    exp_str,         \* argument of parse_expiration
    exp_date,        \* what parse_expiration returned for exp_str
    urgency,         \* what get_urgency_level returned for exp_date
    discount_str,    \* argument of parse_discount_value
    discount_value,  \* what parse_discount_value returned
    db,              \* rows of the promo_codes table
    env,             \* what main finds around it: files, credentials, the mail source
    inbox,           \* the messages the mail source holds, with what promo_parser makes of each
    main,            \* the run of main of gmail_agent_improved.py: position and locals
    files,           \* the writes to the report file, in order
    demo,            \* the run of simulate_agent of demo_simulation.py: position and locals
    batch,           \* the batch handed to deduplicate_promos
    dedup_calls,     \* the calls of deduplicate_promos so far: argument and returned list
    api              \* the API server: user records, oauth_states, the requests in progress

\* The state of the extraction pipeline
pipelineVars == <<env, inbox, main, files, demo, batch, dedup_calls, api>>

vars == <<now, promos, result, exp_str, exp_date, urgency,
          discount_str, discount_value, db, pipelineVars>>

-----------------------------------------------------------------------------
(* Bounds of the model *)

TicksPerDay == 2
MaxClock == 3
MaxBatch == 2
MaxPieces == 3
MaxRows == 2
\* State tokens that /api/auth/start hands out
MaxStates == 2

-----------------------------------------------------------------------------
(* Python values *)

\* None where a str is expected (dict.get without a default on a missing key)
None == "<None>"
\* None where an int is expected
NoneInt == << >>
Some(n) == <<n>>
IsNone(v) == v = NoneInt
Val(v) == v[1]

\* dict.get(key, default)
Get(d, key, default) == IF key \in DOMAIN d THEN d[key] ELSE default

\* "not s" for s a str or None
Falsy(s) == s = None \/ s = ""

-----------------------------------------------------------------------------
(* Text helpers: characters, digits, lower(), substring search *)

Ch(s, i) == SubSeq(s, i, i)

Digits == "0123456789"
UpperAlpha == "ABCDEFGHIJKLMNOPQRSTUVWXYZ"
LowerAlpha == "abcdefghijklmnopqrstuvwxyz"

DigitValue == [c \in {Ch(Digits, k) : k \in 1..10} |->
                 (CHOOSE k \in 1..10 : Ch(Digits, k) = c) - 1]
LowerOf == [c \in {Ch(UpperAlpha, k) : k \in 1..26} |->
              Ch(LowerAlpha, CHOOSE k \in 1..26 : Ch(UpperAlpha, k) = c)]

IsDigit(c) == c \in DOMAIN DigitValue
DigitVal(c) == DigitValue[c]
IsSpace(c) == c \in {" ", "\t", "\n"}

LowerCh(c) == IF c \in DOMAIN LowerOf THEN LowerOf[c] ELSE c

RECURSIVE Lower(_)
Lower(s) == IF s = "" THEN "" ELSE LowerCh(Ch(s, 1)) \o Lower(SubSeq(s, 2, Len(s)))

\* sub in s
Contains(s, sub) ==
    \E i \in 1..(Len(s) - Len(sub) + 1) : SubSeq(s, i, i + Len(sub) - 1) = sub

\* int() of a run of digits
RECURSIVE ToInt(_)
ToInt(s) ==
    IF s = "" THEN 0
    ELSE 10 * ToInt(SubSeq(s, 1, Len(s) - 1)) + DigitVal(Ch(s, Len(s)))

\* the last index of the maximal run of digits that starts at i
RECURSIVE RunEnd(_, _)
RunEnd(s, i) ==
    IF i < Len(s) /\ IsDigit(Ch(s, i + 1)) THEN RunEnd(s, i + 1) ELSE i

Min(S) == CHOOSE x \in S : \A y \in S : x <= y

-----------------------------------------------------------------------------
(* parse_discount_value *)

\* re.search(r'(\d+)%', s): the start positions at which the pattern matches
PctStarts(s) ==
    {i \in 1..Len(s) : /\ IsDigit(Ch(s, i))
                       /\ RunEnd(s, i) < Len(s)
                       /\ Ch(s, RunEnd(s, i) + 1) = "%"}

\* re.search(r'\$(\d+)', s): the positions of a "$" directly followed by a digit
DollarStarts(s) ==
    {i \in 1..(Len(s) - 1) : Ch(s, i) = "$" /\ IsDigit(Ch(s, i + 1))}

FreeScore == 50

parse_discount_value_NoDollarWeight(s) ==
    IF Falsy(s) \/ s = "Check email for details" THEN 0
    ELSE IF PctStarts(s) # {}
         THEN LET i == Min(PctStarts(s)) IN ToInt(SubSeq(s, i, RunEnd(s, i)))
    ELSE IF DollarStarts(s) # {}
         THEN LET i == Min(DollarStarts(s)) IN ToInt(SubSeq(s, i + 1, RunEnd(s, i + 1)))
    ELSE IF Contains(Lower(s), "free") \/ Contains(Lower(s), "bogo") THEN FreeScore
    ELSE 0

parse_discount_value(s) ==
    IF Falsy(s) \/ s = "Check email for details" THEN 0
    ELSE IF PctStarts(s) # {}
         THEN LET i == Min(PctStarts(s)) IN ToInt(SubSeq(s, i, RunEnd(s, i)))
    ELSE IF DollarStarts(s) # {}
         THEN LET i == Min(DollarStarts(s)) IN ToInt(SubSeq(s, i + 1, RunEnd(s, i + 1))) * 2
    ELSE IF Contains(Lower(s), "free") \/ Contains(Lower(s), "bogo") THEN FreeScore
    ELSE 0

-----------------------------------------------------------------------------
(* The calendar of datetime: proleptic Gregorian ordinals *)

IsLeap(y) == y % 4 = 0 /\ (y % 100 # 0 \/ y % 400 = 0)

DaysInMonth(y, m) ==
    IF m = 2 THEN (IF IsLeap(y) THEN 29 ELSE 28)
    ELSE IF m \in {4, 6, 9, 11} THEN 30 ELSE 31

RECURSIVE DaysBeforeMonth(_, _)
DaysBeforeMonth(y, m) ==
    IF m = 1 THEN 0 ELSE DaysBeforeMonth(y, m - 1) + DaysInMonth(y, m - 1)

DaysBeforeYear(y) ==
    (y - 1) * 365 + (y - 1) \div 4 - (y - 1) \div 100 + (y - 1) \div 400

\* date(y, m, d).toordinal()
Ordinal(y, m, d) == DaysBeforeYear(y) + DaysBeforeMonth(y, m) + d

\* datetime(y, m, d, 0, 0), in ticks
Midnight(y, m, d) == Ordinal(y, m, d) * TicksPerDay

\* datetime.max = 9999-12-31 23:59:59.999999, the last instant of its day
DatetimeMax == Ordinal(9999, 12, 31) * TicksPerDay + (TicksPerDay - 1)

\* timedelta.days of (a - b): the floor of the difference in days
DeltaDays(a, b) == (a - b) \div TicksPerDay

-----------------------------------------------------------------------------
(* datetime.strptime for the four formats parse_expiration tries.          *)
(* A format is a sequence of items: "B" (%B), "b" (%b), "d" (%d), "m"      *)
(* (%m), "Y" (%Y), "y" (%y), "s" (white space of the format, \s+ in the    *)
(* regular expression strptime builds) or a literal character.             *)

MonthNames == <<"january", "february", "march", "april", "may", "june", "july",
                "august", "september", "october", "november", "december">>
MonthAbbrs == <<"jan", "feb", "mar", "apr", "may", "jun", "jul",
                "aug", "sep", "oct", "nov", "dec">>

Formats == << <<"B", "s", "d", ",", "s", "Y">>,      \* "%B %d, %Y"
              <<"b", "s", "d", ",", "s", "Y">>,      \* "%b %d, %Y"
              <<"m", "/", "d", "/", "Y">>,           \* "%m/%d/%Y"
              <<"m", "/", "d", "/", "y">> >>         \* "%m/%d/%y"

AllDigits(s, i, n) == i + n - 1 <= Len(s) /\ \A k \in i..(i + n - 1) : IsDigit(Ch(s, k))

\* s[i..j] clipped to s, as a Python slice is
Slice(s, i, j) == SubSeq(s, i, IF j > Len(s) THEN Len(s) ELSE j)

\* The ways one item matches s at position i: a set of <<group, value, next position>>.
\* s is the text in lower case: strptime matches with re.IGNORECASE.
ItemMatches(s, i, item) ==
    CASE item = "B" ->
           {<<"month", n, i + Len(MonthNames[n])>> : n \in
              {n \in 1..12 : Slice(s, i, i + Len(MonthNames[n]) - 1) = MonthNames[n]}}
      [] item = "b" ->
           {<<"month", n, i + 3>> : n \in
              {n \in 1..12 : Slice(s, i, i + 2) = MonthAbbrs[n]}}
      [] item = "d" ->
           \* 3[0-1]|[1-2]\d|0[1-9]|[1-9]| [1-9]
           (IF AllDigits(s, i, 2) /\ ToInt(SubSeq(s, i, i + 1)) \in 1..31
            THEN {<<"day", ToInt(SubSeq(s, i, i + 1)), i + 2>>} ELSE {})
           \cup
           (IF AllDigits(s, i, 1) /\ ToInt(Ch(s, i)) \in 1..9
            THEN {<<"day", ToInt(Ch(s, i)), i + 1>>} ELSE {})
           \cup
           (IF i <= Len(s) /\ Ch(s, i) = " " /\ AllDigits(s, i + 1, 1)
               /\ ToInt(Ch(s, i + 1)) \in 1..9
            THEN {<<"day", ToInt(Ch(s, i + 1)), i + 2>>} ELSE {})
      [] item = "m" ->
           \* 1[0-2]|0[1-9]|[1-9]
           (IF AllDigits(s, i, 2) /\ ToInt(SubSeq(s, i, i + 1)) \in 1..12
            THEN {<<"month", ToInt(SubSeq(s, i, i + 1)), i + 2>>} ELSE {})
           \cup
           (IF AllDigits(s, i, 1) /\ ToInt(Ch(s, i)) \in 1..9
            THEN {<<"month", ToInt(Ch(s, i)), i + 1>>} ELSE {})
      [] item = "Y" ->
           \* \d\d\d\d
           IF AllDigits(s, i, 4)
           THEN {<<"year", ToInt(SubSeq(s, i, i + 3)), i + 4>>} ELSE {}
      [] item = "y" ->
           \* \d\d: 69..99 are 1969..1999, 00..68 are 2000..2068
           IF AllDigits(s, i, 2)
           THEN {<<"year", (IF ToInt(SubSeq(s, i, i + 1)) < 69 THEN 2000 ELSE 1900)
                             + ToInt(SubSeq(s, i, i + 1)), i + 2>>}
           ELSE {}
      [] item = "s" ->
           {<<"none", 0, j>> : j \in
              {j \in (i + 1)..(Len(s) + 1) : \A k \in i..(j - 1) : IsSpace(Ch(s, k))}}
      [] OTHER ->
           IF i <= Len(s) /\ Ch(s, i) = item THEN {<<"none", 0, i + 1>>} ELSE {}

\* Every way the items fmt[k..] match s[i..] to its end, as the fields found
RECURSIVE MatchFrom(_, _, _, _, _)
MatchFrom(s, i, fmt, k, acc) ==
    IF k > Len(fmt)
    THEN (IF i = Len(s) + 1 THEN {acc} ELSE {})
    ELSE UNION {MatchFrom(s, t[3], fmt, k + 1,
                          IF t[1] = "none" THEN acc ELSE [acc EXCEPT ![t[1]] = t[2]])
                : t \in ItemMatches(s, i, fmt[k])}

\* The dates the fields found make.  The day must exist in its month and the
\* year be in 1..9999, or datetime's constructor raises ValueError too.
StrptimeDates(s, fmt) ==
    {f \in MatchFrom(Lower(s), 1, fmt, 1, [year |-> 1900, month |-> 1, day |-> 1]) :
        f.year \in 1..9999 /\ f.day <= DaysInMonth(f.year, f.month)}

Return(v) == [exc |-> "", val |-> v]
Raise(e) == [exc |-> e, val |-> 0]

\* datetime.strptime(s, fmt): returns [exc, val], exc = "" when it returns val
strptime(s, fmt) ==
    LET dates == StrptimeDates(s, fmt) IN
    IF dates = {} THEN Raise("ValueError")
    ELSE LET f == CHOOSE f \in dates : TRUE IN Return(Midnight(f.year, f.month, f.day))

-----------------------------------------------------------------------------
(* parse_expiration.  Returns [exc, val]. *)

\* The loop with neither try: the ValueError of a format leaves the function
TryFormats_NoExcept(s, k) == strptime(s, Formats[k])

\* The loop leaving after its first format, whether or not it parsed
TryFormats_FirstFormatOnly(s, k) ==
    LET r == strptime(s, Formats[1]) IN
    IF r.exc = "ValueError" THEN Return(DatetimeMax) ELSE r

\* The for loop over the formats, from format k on: "except ValueError: continue",
\* and after the last format "return datetime.max"
RECURSIVE TryFormats(_, _)
TryFormats(s, k) ==
    IF k > Len(Formats) THEN Return(DatetimeMax)
    ELSE LET r == strptime(s, Formats[k]) IN
         IF r.exc = "ValueError" THEN TryFormats(s, k + 1) ELSE r

parse_expiration(s) ==
    IF Falsy(s) THEN Return(DatetimeMax) ELSE TryFormats(s, 1)

-----------------------------------------------------------------------------
(* get_urgency_level.  Returns <<urgency_text, urgency_class, days_left>>. *)

\* str(n) for n >= 0
RECURSIVE IntToStr(_)
IntToStr(n) ==
    IF n < 10 THEN Ch(Digits, n + 1)
    ELSE IntToStr(n \div 10) \o Ch(Digits, (n % 10) + 1)

get_urgency_level_HighUpTo4(expiration_date, t) ==
    IF expiration_date = DatetimeMax THEN <<"Unknown", "urgency-unknown", NoneInt>>
    ELSE LET days_left == DeltaDays(expiration_date, t) IN
         IF days_left < 0 THEN <<"Expired", "urgency-expired", Some(days_left)>>
         ELSE IF days_left = 0 THEN <<"Today", "urgency-critical", Some(0)>>
         ELSE IF days_left = 1 THEN <<"Tomorrow", "urgency-critical", Some(1)>>
         ELSE IF days_left <= 4
              THEN <<IntToStr(days_left) \o " days", "urgency-high", Some(days_left)>>
         ELSE IF days_left <= 7
              THEN <<IntToStr(days_left) \o " days", "urgency-medium", Some(days_left)>>
         ELSE <<IntToStr(days_left) \o " days", "urgency-low", Some(days_left)>>

get_urgency_level_LowBeforeMedium(expiration_date, t) ==
    IF expiration_date = DatetimeMax THEN <<"Unknown", "urgency-unknown", NoneInt>>
    ELSE LET days_left == DeltaDays(expiration_date, t) IN
         IF days_left < 0 THEN <<"Expired", "urgency-expired", Some(days_left)>>
         ELSE IF days_left = 0 THEN <<"Today", "urgency-critical", Some(0)>>
         ELSE IF days_left = 1 THEN <<"Tomorrow", "urgency-critical", Some(1)>>
         ELSE IF days_left <= 3
              THEN <<IntToStr(days_left) \o " days", "urgency-high", Some(days_left)>>
         ELSE IF days_left <= 7
              THEN <<IntToStr(days_left) \o " days", "urgency-low", Some(days_left)>>
         ELSE <<IntToStr(days_left) \o " days", "urgency-medium", Some(days_left)>>

get_urgency_level(expiration_date, t) ==
    IF expiration_date = DatetimeMax THEN <<"Unknown", "urgency-unknown", NoneInt>>
    ELSE LET days_left == DeltaDays(expiration_date, t) IN
         IF days_left < 0 THEN <<"Expired", "urgency-expired", Some(days_left)>>
         ELSE IF days_left = 0 THEN <<"Today", "urgency-critical", Some(0)>>
         ELSE IF days_left = 1 THEN <<"Tomorrow", "urgency-critical", Some(1)>>
         ELSE IF days_left <= 3
              THEN <<IntToStr(days_left) \o " days", "urgency-high", Some(days_left)>>
         ELSE IF days_left <= 7
              THEN <<IntToStr(days_left) \o " days", "urgency-medium", Some(days_left)>>
         ELSE <<IntToStr(days_left) \o " days", "urgency-low", Some(days_left)>>

-----------------------------------------------------------------------------
(* enrich_promo_data.  Returns [exc, val]: val is the sorted list. *)

ComputedKeys == {"expiration_date", "urgency_text", "urgency_class", "days_left",
                 "discount_value", "display_expiration", "display_discount",
                 "display_merchant"}

UnknownDaysLeft == 999

\* "if days_left is not None and days_left < 0: continue"
SkipExpired_Never(days_left) == FALSE

\* ... skipping also a promo whose expiration is not known
SkipExpired_OrUnknown(days_left) == IsNone(days_left) \/ Val(days_left) < 0

SkipExpired(days_left) == ~IsNone(days_left) /\ Val(days_left) < 0

\* 'days_left': days_left if days_left is not None else 999
DaysLeftField(days_left) == IF IsNone(days_left) THEN UnknownDaysLeft ELSE Val(days_left)

\* The merchant for display: the merchant, or the subject cut to 40 characters
DisplayMerchant(promo) ==
    LET merchant == Get(promo, "merchant", "Unknown Merchant") IN
    IF Falsy(merchant)
    THEN LET subject == Get(promo, "subject", "") IN
         IF Len(subject) > 40 THEN SubSeq(subject, 1, 40) \o "..." ELSE subject
    ELSE merchant

\* The dict built for one promo: {**promo, 'expiration_date': ..., ...}
EnrichedPromo(promo, exp_date_, level) ==
    LET computed ==
          [expiration_date    |-> exp_date_,
           urgency_text       |-> level[1],
           urgency_class      |-> level[2],
           days_left          |-> DaysLeftField(level[3]),
           discount_value     |-> parse_discount_value(Get(promo, "discount", "")),
           display_expiration |-> Get(promo, "expiration", "No expiration"),
           display_discount   |-> Get(promo, "discount", "See email for details"),
           display_merchant   |-> DisplayMerchant(promo)]
    IN  [k \in DOMAIN promo \cup ComputedKeys |->
           IF k \in ComputedKeys THEN computed[k] ELSE promo[k]]

\* key=lambda x: (x['days_left'], -x['discount_value']), compared as tuples
SortKey_DiscountAscending(x) == <<x.days_left, x.discount_value>>

SortKey(x) == <<x.days_left, 0 - x.discount_value>>

KeyLess(a, b) == a[1] < b[1] \/ (a[1] = b[1] /\ a[2] < b[2])

\* list.sort is stable: x goes after every element whose key is not greater
RECURSIVE InsertSorted(_, _)
InsertSorted(sorted, x) ==
    IF sorted = << >> THEN <<x>>
    ELSE IF KeyLess(SortKey(x), SortKey(Head(sorted)))
         THEN <<x>> \o sorted
         ELSE <<Head(sorted)>> \o InsertSorted(Tail(sorted), x)

RECURSIVE Sorted(_)
Sorted(list) ==
    IF list = << >> THEN << >>
    ELSE InsertSorted(Sorted(SubSeq(list, 1, Len(list) - 1)), list[Len(list)])

\* The for loop from promo k on; enriched is the list built so far
RECURSIVE EnrichLoop(_, _, _, _)
EnrichLoop(list, k, enriched, t) ==
    IF k > Len(list) THEN Return(Sorted(enriched))
    ELSE LET promo == list[k]
             parsed == parse_expiration(Get(promo, "expiration", None))
         IN  IF parsed.exc # "" THEN [exc |-> parsed.exc, val |-> << >>]
             ELSE LET level == get_urgency_level(parsed.val, t) IN
                  IF SkipExpired(level[3])
                  THEN EnrichLoop(list, k + 1, enriched, t)
                  ELSE EnrichLoop(list, k + 1,
                                  Append(enriched, EnrichedPromo(promo, parsed.val, level)), t)

enrich_promo_data(list, t) == EnrichLoop(list, 1, << >>, t)

\* ... with the computed fields written into the dicts of the argument
ArgumentAfter_FilledInPlace(list, t) ==
    [k \in 1..Len(list) |->
        LET parsed == parse_expiration(Get(list[k], "expiration", None)) IN
        IF parsed.exc # "" THEN list[k]
        ELSE EnrichedPromo(list[k], parsed.val, get_urgency_level(parsed.val, t))]

\* The list passed to enrich_promo_data, after the call: the loop only reads
\* its dicts ({**promo, ...} is a new dict) and sort() is called on the new list
ArgumentAfter(list, t) == list

-----------------------------------------------------------------------------
(* The clock *)

StartClock == Midnight(2025, 10, 18)
Clock == StartClock..(StartClock + MaxClock)

\* The calendar date of an instant, as an ordinal
DateOf(t) == t \div TicksPerDay

\* Time passes between calls
Tick ==
    /\ now < StartClock + MaxClock
    /\ now' = now + 1
    /\ UNCHANGED <<promos, result, exp_str, exp_date, urgency,
                   discount_str, discount_value, db>>
    /\ UNCHANGED pipelineVars

-----------------------------------------------------------------------------
(* Inputs: candidate records as the extraction stage hands them over *)

Missing == "<missing>"

\* The dict with the given fields, a Missing field having no key
Candidate(code, merchant, discount, expiration, subject) ==
    LET all == [code |-> code, merchant |-> merchant, discount |-> discount,
                expiration |-> expiration, subject |-> subject]
    IN  [k \in {k \in DOMAIN all : all[k] # Missing} |-> all[k]]

LongSubject == "Explore Fall Favorites! Fly Round Trip from $50.12"

\* Expiration texts around the clock's dates: absent, empty, unparseable, past,
\* today, tomorrow, each urgency tier, and dates 999 days and more ahead
BatchExpirations ==
    {Missing, "", "sometime soon", "10/17/2025", "October 18, 2025", "Oct 19, 2025",
     "10/21/25", "October 24, 2025", "Oct 28, 2025", "July 13, 2028",
     "December 31, 2028"}

Candidates ==
    {Candidate("SAVE25NOW", "Nordstrom", "40% off", e, "Nordstrom - Fall Sale") :
        e \in BatchExpirations}
    \cup
    {Candidate("FLIGHT40", "Southwest Airlines", "$50 off", e, "Southwest - Flash Sale") :
        e \in {"sometime soon", "Oct 28, 2025"}}

\* Every combination of an absent, an empty and a filled field
FieldCombinations ==
    {Candidate(c, m, d, e, sj) :
        c \in {Missing, "", "FLIGHT40"}, m \in {Missing, "", "Southwest Airlines"},
        d \in {Missing, "", "Free shipping"}, e \in {Missing, "", "Oct 21, 2025"},
        sj \in {Missing, "", LongSubject}}

RECURSIVE Batches(_)
Batches(n) ==
    IF n = 0 THEN {<< >>}
    ELSE Batches(n - 1) \cup
         {Append(b, c) : b \in {b \in Batches(n - 1) : Len(b) = n - 1}, c \in Candidates}

NotCalled == [status |-> "none", value |-> << >>, at |-> 0]

IdleEnrich == promos = << >> /\ result = NotCalled
IdleUrgency == exp_str = None /\ exp_date = NoneInt /\ urgency = << >>
IdleDiscount == discount_str = None /\ discount_value = NoneInt
IdleDb == db = << >>
IdleApi == api = << >>
IdlePipeline ==
    /\ env = << >> /\ inbox = << >> /\ files = << >>
    /\ main = [pc |-> "idle"] /\ demo = [pc |-> "idle"]
    /\ batch = << >> /\ dedup_calls = << >>
    /\ IdleApi

-----------------------------------------------------------------------------
(* Spec: enrich_promo_data called on a batch, at any time, any number of times *)

Init ==
    /\ now \in Clock
    /\ promos \in Batches(MaxBatch) \cup {<<c>> : c \in FieldCombinations}
    /\ result = NotCalled
    /\ IdleUrgency /\ IdleDiscount /\ IdleDb /\ IdlePipeline

Enrich ==
    /\ LET r == enrich_promo_data(promos, now) IN
       result' = [status |-> IF r.exc = "" THEN "returned" ELSE "raised",
                  value  |-> r.val,
                  at     |-> now]
    /\ promos' = ArgumentAfter(promos, now)
    /\ UNCHANGED <<now, exp_str, exp_date, urgency,
                   discount_str, discount_value, db>>
    /\ UNCHANGED pipelineVars

Next == Enrich \/ Tick

Spec == Init /\ [][Next]_vars

-----------------------------------------------------------------------------
(* Properties of enrich_promo_data (Spec) *)

Returned == result.status = "returned"
Output == result.value

\* r is the record enrich_promo_data builds from candidate p: p's keys and the
\* computed ones, with p's values
FromPromo(r, p) ==
    /\ DOMAIN r = DOMAIN p \cup ComputedKeys
    /\ \A k \in DOMAIN p \ ComputedKeys : r[k] = p[k]

\* The date an expiration text names, as the formats of strptime read it
ExpirationOf(p) == parse_expiration(Get(p, "expiration", None)).val

HasDate(p) == ExpirationOf(p) # DatetimeMax

\* Candidate p had expired at instant t
ExpiredAt(p, t) == HasDate(p) /\ ExpirationOf(p) < t

\* C1: whatever the batch and the time, no record of the output of
\* enrich_promo_data has a negative daysLeft or the Expired tier.
C1_NoExpiredInOutput ==
    Returned =>
        \A i \in 1..Len(Output) :
            /\ Output[i].days_left >= 0
            /\ Output[i].urgency_class # "urgency-expired"
            /\ Output[i].urgency_text # "Expired"

\* An expired candidate was in the batch and the call dropped it, keeping another
C1_Witness ==
    /\ Returned
    /\ \E k \in 1..Len(promos) : ExpiredAt(promos[k], result.at)
    /\ Len(Output) = 1
    /\ Len(promos) = 2

\* C3 as the spec states it: daysLeft is the difference in whole days between
\* the expiration date and the current date when enrichment runs; an offer
\* expiring on the current date has daysLeft 0, is "Today" and is in the output
\* at every time of that day, and one expiring the next day has daysLeft 1 and
\* is "Tomorrow".
C3_CalendarDays ==
    Returned =>
        \A k \in 1..Len(promos) :
            LET p == promos[k]
                days == DateOf(ExpirationOf(p)) - DateOf(result.at)
            IN  HasDate(p) /\ days \in {0, 1} =>
                    \E i \in 1..Len(Output) :
                        /\ FromPromo(Output[i], p)
                        /\ Output[i].days_left = days
                        /\ Output[i].urgency_class = "urgency-critical"
                        /\ Output[i].urgency_text = (IF days = 0 THEN "Today" ELSE "Tomorrow")

\* The tier order Expired < Critical < High < Medium < Low
TierRank(class) ==
    CASE class = "urgency-expired"  -> 0
      [] class = "urgency-critical" -> 1
      [] class = "urgency-high"     -> 2
      [] class = "urgency-medium"   -> 3
      [] class = "urgency-low"      -> 4

KnownDays(r) == r.urgency_class # "urgency-unknown"

\* C4: of two enriched records with known daysLeft, the one with the smaller
\* daysLeft never has the less urgent tier.
C4_UrgencyMonotone ==
    Returned =>
        \A i, j \in 1..Len(Output) :
            (KnownDays(Output[i]) /\ KnownDays(Output[j])
                /\ Output[i].days_left <= Output[j].days_left)
            => TierRank(Output[i].urgency_class) <= TierRank(Output[j].urgency_class)

\* Two records of different known tiers are in one output
C4_Witness ==
    /\ Returned
    /\ \E i, j \in 1..Len(Output) :
          /\ Output[i].urgency_class = "urgency-medium"
          /\ Output[j].urgency_class = "urgency-low"

\* C5: the output is in ascending order of daysLeft, and records of equal
\* daysLeft are in descending order of discount score.
C5_OutputSorted ==
    Returned =>
        \A i, j \in 1..Len(Output) :
            i < j =>
                /\ Output[i].days_left <= Output[j].days_left
                /\ (Output[i].days_left = Output[j].days_left
                      => Output[i].discount_value >= Output[j].discount_value)

\* The sort moved a record: the batch's second candidate, of equal daysLeft and
\* a greater score, is first in the output
C5_Witness ==
    /\ Returned
    /\ Len(promos) = 2 /\ Len(Output) = 2
    /\ FromPromo(Output[1], promos[2])
    /\ ~FromPromo(Output[1], promos[1])
    /\ Output[1].days_left = Output[2].days_left
    /\ Output[1].discount_value > Output[2].discount_value

\* C6 as the spec states it: every offer of unknown expiration comes after
\* every offer with a known daysLeft, whatever that daysLeft is.
C6_UnknownLast ==
    Returned =>
        \A i, j \in 1..Len(Output) :
            (~KnownDays(Output[i]) /\ KnownDays(Output[j])) => j < i

\* An expiration text is there and no format reads it
Unparseable(p) ==
    /\ ~Falsy(Get(p, "expiration", None))
    /\ \A k \in 1..Len(Formats) : strptime(p.expiration, Formats[k]).exc = "ValueError"

\* C8 as the spec states it: a candidate whose expirationText no format reads
\* is in the output, with expirationDate unknown, daysLeft unknown (not a
\* number) and the tier Unknown.
C8_UnparseableIsUnknown ==
    Returned =>
        \A k \in 1..Len(promos) :
            Unparseable(promos[k]) =>
                \E i \in 1..Len(Output) :
                    /\ FromPromo(Output[i], promos[k])
                    /\ Output[i].expiration_date = DatetimeMax
                    /\ Output[i].urgency_text = "Unknown"
                    /\ Output[i].urgency_class = "urgency-unknown"
                    /\ Output[i].days_left \notin Int

-----------------------------------------------------------------------------
(* SpecUrgency: parse_expiration, then get_urgency_level, on one text *)

MonthWords == {"October", "october", "OCT", "Oct", "May", "February", "Octember"}
DayWords == {"0", "5", "05", "18", "19", "20", "21", "22", "25", "26", "30", "32"}
YearWords == {"2025", "25", "2026"}

ExpirationTexts ==
    {w \o s1 \o d \o s2 \o y :
        w \in MonthWords, s1 \in {" ", "  ", ""}, d \in DayWords,
        s2 \in {", ", ","}, y \in YearWords}
    \cup
    {m \o "/" \o d \o "/" \o y :
        m \in {"10", "1", "02", "13", "00"}, d \in DayWords,
        y \in {"2025", "25", "99", "202"}}
    \cup
    {None, "", "None", "No expiration", "sometime soon", "October 20, 2025 ",
     " October 20, 2025", "December 31, 9999", "July 13, 2028"}

InitUrgency ==
    /\ now \in Clock
    /\ exp_str \in ExpirationTexts
    /\ exp_date = NoneInt
    /\ urgency = << >>
    /\ IdleEnrich /\ IdleDiscount /\ IdleDb /\ IdlePipeline

ParseExpiration ==
    /\ exp_date = NoneInt
    /\ LET r == parse_expiration(exp_str) IN
       exp_date' = IF r.exc = "" THEN Some(r.val) ELSE NoneInt
    /\ urgency' = << >>
    /\ UNCHANGED <<now, promos, result, exp_str, discount_str, discount_value, db>>
    /\ UNCHANGED pipelineVars

GetUrgencyLevel ==
    /\ exp_date # NoneInt
    /\ urgency' = <<get_urgency_level(Val(exp_date), now), now>>
    /\ UNCHANGED <<now, promos, result, exp_str, exp_date, discount_str,
                   discount_value, db>>
    /\ UNCHANGED pipelineVars

NextUrgency == ParseExpiration \/ GetUrgencyLevel \/ Tick

SpecUrgency == InitUrgency /\ [][NextUrgency]_vars

-----------------------------------------------------------------------------
(* Properties of get_urgency_level (SpecUrgency) *)

\* C2: get_urgency_level gives the tier by the first rule that applies:
\* daysLeft unknown, Unknown; below 0, Expired; 0, Critical "Today"; 1, Critical
\* "Tomorrow"; 2..3, High; 4..7, Medium; above 7, Low; one tier for every
\* integer daysLeft.
C2_TierTable ==
    urgency # << >> =>
        LET text == urgency[1][1]
            class == urgency[1][2]
            days_left == urgency[1][3]
        IN  /\ IsNone(days_left) <=> Val(exp_date) = DatetimeMax
            /\ IsNone(days_left) => text = "Unknown" /\ class = "urgency-unknown"
            /\ ~IsNone(days_left) =>
                 LET n == Val(days_left) IN
                 /\ n < 0 => text = "Expired" /\ class = "urgency-expired"
                 /\ n = 0 => text = "Today" /\ class = "urgency-critical"
                 /\ n = 1 => text = "Tomorrow" /\ class = "urgency-critical"
                 /\ n \in 2..3 => text = IntToStr(n) \o " days" /\ class = "urgency-high"
                 /\ n \in 4..7 => text = IntToStr(n) \o " days" /\ class = "urgency-medium"
                 /\ n > 7 => text = IntToStr(n) \o " days" /\ class = "urgency-low"

\* get_urgency_level has returned for an offer with 4 days left
C2_Witness ==
    /\ urgency # << >>
    /\ urgency[1][3] = Some(4)
    /\ urgency[1][2] = "urgency-medium"

\* The formats, by position, that read the text s
FormatsReading(s) == {k \in 1..Len(Formats) : StrptimeDates(s, Formats[k]) # {}}

\* C23: parse_expiration tries the formats in their fixed order and returns
\* the date of the first one that reads the text; an absent or empty text and
\* a text no format reads give datetime.max, never a date in the past.
C23_FirstFormatOrSentinel ==
    exp_date # NoneInt =>
        IF Falsy(exp_str) \/ FormatsReading(exp_str) = {}
        THEN Val(exp_date) = DatetimeMax /\ \A t \in Clock : Val(exp_date) > t
        ELSE LET first == CHOOSE k \in FormatsReading(exp_str) :
                              \A j \in FormatsReading(exp_str) : k <= j
             IN  /\ Val(exp_date) = strptime(exp_str, Formats[first]).val
                 /\ Val(exp_date) # DatetimeMax

\* parse_expiration returned the date of a text that only the fourth format
\* reads, after three formats failed
C23_Witness ==
    /\ exp_date # NoneInt
    /\ FormatsReading(exp_str) = {4}
    /\ Val(exp_date) = Midnight(2025, 10, 20)

-----------------------------------------------------------------------------
(* SpecDiscount: parse_discount_value on one text *)

DiscountPieces ==
    {"40", "5", "%", "$", ".", " off", "free", "FREE ", "BoGo", " ",
     "Check email for details"}

RECURSIVE Concatenations(_)
Concatenations(n) ==
    IF n = 0 THEN {""}
    ELSE Concatenations(n - 1) \cup
         {s \o piece : s \in Concatenations(n - 1), piece \in DiscountPieces}

DiscountTexts == Concatenations(MaxPieces) \cup {None}

InitDiscount ==
    /\ now = StartClock
    /\ discount_str \in DiscountTexts
    /\ discount_value = NoneInt
    /\ IdleEnrich /\ IdleUrgency /\ IdleDb /\ IdlePipeline

ParseDiscountValue ==
    /\ discount_value = NoneInt
    /\ discount_value' = Some(parse_discount_value(discount_str))
    /\ UNCHANGED <<now, promos, result, exp_str, exp_date, urgency, discount_str, db>>
    /\ UNCHANGED pipelineVars

NextDiscount == ParseDiscountValue

SpecDiscount == InitDiscount /\ [][NextDiscount]_vars

-----------------------------------------------------------------------------
(* Properties of parse_discount_value (SpecDiscount) *)

\* The runs of digits of s that a "%" follows, as <<first, last>> positions
PercentRuns(s) ==
    {ij \in (1..Len(s)) \X (1..Len(s)) :
        /\ ij[1] <= ij[2]
        /\ \A k \in ij[1]..ij[2] : IsDigit(Ch(s, k))
        /\ (ij[1] = 1 \/ ~IsDigit(Ch(s, ij[1] - 1)))
        /\ ij[2] < Len(s) /\ Ch(s, ij[2] + 1) = "%"}

\* The runs of digits of s that follow a "$"
DollarRuns(s) ==
    {ij \in (1..Len(s)) \X (1..Len(s)) :
        /\ ij[1] <= ij[2]
        /\ \A k \in ij[1]..ij[2] : IsDigit(Ch(s, k))
        /\ ij[1] > 1 /\ Ch(s, ij[1] - 1) = "$"
        /\ (ij[2] = Len(s) \/ ~IsDigit(Ch(s, ij[2] + 1)))}

FirstRun(runs) == CHOOSE ij \in runs : \A other \in runs : ij[1] <= other[1]
NumberOf(s, ij) == ToInt(SubSeq(s, ij[1], ij[2]))

IsPercentage(s) == PercentRuns(s) # {}
IsDollar(s) == DollarRuns(s) # {}
SaysFree(s) == \E w \in {"free", "bogo"} : Contains(Lower(s), w)

Scored == discount_value # NoneInt
NoText == discount_str = None \/ discount_str = ""

\* C7 as the spec states it: a percentage discount scores its percentage, a
\* fixed-dollar discount twice its dollar amount, a text containing "free" or
\* "BOGO" scores 50, anything else 0; the score is never negative.
C7_ScoreByKind ==
    (Scored /\ ~NoText) =>
        LET s == discount_str
            v == Val(discount_value)
        IN  /\ IsPercentage(s) => v = NumberOf(s, FirstRun(PercentRuns(s)))
            /\ IsDollar(s) => v = 2 * NumberOf(s, FirstRun(DollarRuns(s)))
            /\ SaysFree(s) => v = FreeScore
            /\ (~IsPercentage(s) /\ ~IsDollar(s) /\ ~SaysFree(s)) => v = 0
            /\ v >= 0

\* C7, amended: the first rule that applies decides the score, in the order
\* percentage, dollar amount, "free"/"BOGO": a text with digits directly before
\* a "%" scores the first such number; else a text with digits directly after
\* a "$" scores twice the first such number; else a text containing "free" or
\* "bogo" in any case scores 50; every other text, and no text, scores 0.
C7_ScoreByFirstRule ==
    Scored =>
        LET s == discount_str
            v == Val(discount_value)
        IN  /\ NoText => v = 0
            /\ ~NoText =>
                 /\ IsPercentage(s) => v = NumberOf(s, FirstRun(PercentRuns(s)))
                 /\ (~IsPercentage(s) /\ IsDollar(s))
                      => v = 2 * NumberOf(s, FirstRun(DollarRuns(s)))
                 /\ (~IsPercentage(s) /\ ~IsDollar(s) /\ SaysFree(s)) => v = FreeScore
                 /\ (~IsPercentage(s) /\ ~IsDollar(s) /\ ~SaysFree(s)) => v = 0
            /\ v >= 0

\* A text that has a dollar amount and says "free" has been scored by its amount
C7_Witness ==
    /\ Scored /\ ~NoText
    /\ SaysFree(discount_str) /\ IsDollar(discount_str) /\ ~IsPercentage(discount_str)
    /\ Val(discount_value) = 10

-----------------------------------------------------------------------------
(* database.py: the promo_codes table.  db is the list of its rows in the  *)
(* order of insertion; a row's id is its position at the time it was added *)

Users == {"u1", "u2"}

\* PromoCode(...): a row.  is_used is not passed and takes its default, False
PromoCode(id, user_id, promo_data, merchant, discount, category) ==
    [id            |-> id,
     user_id       |-> user_id,
     code          |-> Get(promo_data, "code", None),
     merchant      |-> merchant,
     discount      |-> discount,
     category      |-> category,
     expiration    |-> Get(promo_data, "expiration", None),
     subject       |-> Get(promo_data, "subject", None),
     raw_text      |-> Get(promo_data, "raw", None),
     days_left     |-> Get(promo_data, "days_left", NoneInt),
     urgency_text  |-> Get(promo_data, "urgency_text", None),
     urgency_class |-> Get(promo_data, "urgency_class", None),
     is_used       |-> FALSE,
     is_expired    |-> Get(promo_data, "is_expired", FALSE)]

NextId(rows) == IF rows = << >> THEN 1 ELSE rows[Len(rows)].id + 1

\* create_promo_code: the table after the commit
create_promo_code(rows, user_id, promo_data) ==
    Append(rows, PromoCode(NextId(rows), user_id, promo_data,
                           Get(promo_data, "merchant", None),
                           Get(promo_data, "discount", None),
                           Get(promo_data, "category", None)))

\* bulk_insert_promos: the table after the commit
RECURSIVE bulk_insert_promos(_, _, _)
bulk_insert_promos(rows, user_id, promos_list) ==
    IF promos_list = << >> THEN rows
    ELSE bulk_insert_promos(
             Append(rows, PromoCode(NextId(rows), user_id, Head(promos_list),
                                    Get(Head(promos_list), "merchant", "Unknown"),
                                    Get(Head(promos_list), "discount", "Check email for details"),
                                    Get(Head(promos_list), "category", "Other"))),
             user_id, Tail(promos_list))

\* sample_promos of scan_gmail
SamplePromos ==
    << [code |-> "FALL40", merchant |-> "CheapOair", discount |-> "40% off",
        category |-> "Flights", expiration |-> "Oct 21, 2025",
        subject |-> "Explore Fall Favorites! - Fly Round Trip from $50.12",
        days_left |-> Some(3), urgency_text |-> "3 days",
        urgency_class |-> "urgency-high", is_expired |-> FALSE],
       [code |-> "PRESALE", merchant |-> "Chase Center",
        discount |-> "Check email for details", category |-> "Retail",
        expiration |-> "October 19, 2026",
        subject |-> "Today at 2PM: Your Presale for Kelly Chen",
        days_left |-> Some(366), urgency_text |-> "366 days",
        urgency_class |-> "urgency-low", is_expired |-> FALSE],
       [code |-> "BFCOASTERSALE", merchant |-> "California's Great America",
        discount |-> "20% Off", category |-> "Food", expiration |-> "None",
        subject |-> "Get A Free Upgrade With A 2026 Gold Pass!",
        days_left |-> NoneInt, urgency_text |-> "Unknown",
        urgency_class |-> "urgency-unknown", is_expired |-> FALSE] >>

\* What a caller holds for an offer after parse_expiration and
\* get_urgency_level at instant t: the candidate and the three computed values
Assessed(p, t) ==
    LET level == get_urgency_level(ExpirationOf(p), t) IN
    [k \in DOMAIN p \cup {"urgency_text", "urgency_class", "days_left"} |->
        CASE k = "urgency_text"  -> level[1]
          [] k = "urgency_class" -> level[2]
          [] k = "days_left"     -> level[3]
          [] OTHER               -> p[k]]

\* The records a caller may persist at instant t
PromoData(t) ==
    {SamplePromos[k] : k \in 1..Len(SamplePromos)}
    \cup
    {Assessed(Candidate(c, "Nordstrom", "40% off", e, Missing), t) :
        c \in {"SAVE25NOW", "FALL40"},
        e \in {Missing, "10/17/2025", "October 18, 2025", "Oct 28, 2025"}}

-----------------------------------------------------------------------------
(* SpecDb: calls of the promo operations of database.py *)

InitDb ==
    /\ now \in Clock
    /\ db = << >>
    /\ IdleEnrich /\ IdleUrgency /\ IdleDiscount /\ IdlePipeline

CreatePromoCode ==
    /\ Len(db) < MaxRows
    /\ \E u \in Users, promo_data \in PromoData(now) :
          db' = create_promo_code(db, u, promo_data)
    /\ UNCHANGED <<now, promos, result, exp_str, exp_date, urgency,
                   discount_str, discount_value>>
    /\ UNCHANGED pipelineVars

BulkInsertPromos ==
    /\ \E u \in Users, n \in 0..(MaxRows - Len(db)) :
          \E promos_list \in [1..n -> PromoData(now)] :
              db' = bulk_insert_promos(db, u, promos_list)
    /\ UNCHANGED <<now, promos, result, exp_str, exp_date, urgency,
                   discount_str, discount_value>>
    /\ UNCHANGED pipelineVars

NextDb == CreatePromoCode \/ BulkInsertPromos \/ Tick

SpecDb == InitDb /\ [][NextDb]_vars

\* C10 as the spec states it: a persisted record has isExpired true exactly
\* when its daysLeft is known and negative.
C10_IsExpiredIffNegative ==
    \A k \in 1..Len(db) :
        db[k].is_expired <=> (~IsNone(db[k].days_left) /\ Val(db[k].days_left) < 0)

-----------------------------------------------------------------------------
(* gmail_agent_improved.py: Gmail messages and parse_email.                *)
(* A message is the dict the Gmail API returns.  The "data" of a body is a *)
(* record [coding, text]: what the base64url string holds and how.         *)

NoData == [coding |-> "none", text |-> ""]
Encoded(text) == [coding |-> "base64url/utf-8", text |-> text]
BadPadding == [coding |-> "base64url, incorrect padding", text |-> "VXNlIGNvZGU"]
NotUtf8 == [coding |-> "base64url/latin-1", text |-> "Caf\\xe9 SAVE25NOW"]

\* "if data:" is false for None and for the empty string
DataFalsy(data) == data.coding = "none" \/ (data.coding = "base64url/utf-8" /\ data.text = "")

\* base64.urlsafe_b64decode(data.encode("UTF-8")).decode("UTF-8")
Decode(data) ==
    CASE data.coding = "base64url/utf-8" -> Return(data.text)
      [] data.coding = "base64url, incorrect padding" -> [exc |-> "binascii.Error", val |-> ""]
      [] OTHER -> [exc |-> "UnicodeDecodeError", val |-> ""]

EmptyDict == << >>

\* The loop over the headers from header k on: the last "subject" / "from" wins
RECURSIVE HeaderValue(_, _, _, _)
HeaderValue(headers, wanted, k, found) ==
    IF k > Len(headers) THEN found
    ELSE HeaderValue(headers, wanted, k + 1,
                     IF Lower(Get(headers[k], "name", "")) = wanted
                     THEN Get(headers[k], "value", "") ELSE found)

\* The loop over the parts from part k on: the text of the first text/plain
\* part that has data; [exc, val]
RECURSIVE PartsText(_, _)
PartsText(parts, k) ==
    IF k > Len(parts) THEN Return("")
    ELSE LET part == parts[k]
             data == Get(Get(part, "body", EmptyDict), "data", NoData)
         IN  IF Get(part, "mimeType", None) = "text/plain" /\ ~DataFalsy(data)
             THEN Decode(data)
             ELSE PartsText(parts, k + 1)

\* The try block of parse_email: [exc, val], val = <<body_text, subject, sender>>
ParseEmailBody(msg) ==
    LET headers == Get(Get(msg, "payload", EmptyDict), "headers", << >>)
        subject == HeaderValue(headers, "subject", 1, "")
        sender  == HeaderValue(headers, "from", 1, "")
    IN  IF "payload" \notin DOMAIN msg THEN [exc |-> "KeyError", val |-> <<"", "", "">>]
        ELSE LET payload == msg.payload
                 from_parts == PartsText(Get(payload, "parts", << >>), 1)
             IN  IF from_parts.exc # "" THEN [exc |-> from_parts.exc, val |-> <<"", "", "">>]
                 ELSE IF from_parts.val = "" /\ "body" \in DOMAIN payload
                                             /\ "data" \in DOMAIN payload.body
                      THEN LET main_body == Decode(payload.body.data) IN
                           IF main_body.exc # ""
                           THEN [exc |-> main_body.exc, val |-> <<"", "", "">>]
                           ELSE Return(<<main_body.val, subject, sender>>)
                      ELSE Return(<<from_parts.val, subject, sender>>)

\* parse_email with no except clause: the exception leaves it
parse_email_NoExcept(msg) == ParseEmailBody(msg)

\* parse_email: "except Exception: return '', '', ''"
parse_email(msg) ==
    LET r == ParseEmailBody(msg) IN
    IF r.exc # "" THEN Return(<<"", "", "">>) ELSE r

-----------------------------------------------------------------------------
(* extract_promos_from_emails.  promo_parser is imported, not part of the  *)
(* sources: what extract_promos, extract_merchant_name and categorize_promo *)
(* do with a message is part of the input, the "parser" of an inbox entry: *)
(*   extract3        [exc, val] of extract_promos(text, subject, sender)   *)
(*   extract1        [exc, val] of extract_promos(text)                    *)
(*   merchant_name   [exc, val] of extract_merchant_name(subject, sender)  *)
(*   categorize      "ok", or the exception categorize_promo raises on     *)
(*                   these promos whatever the taxonomy                    *)
(*   category        the category categorize_promo gives with the taxonomy *)

\* The categories file categorize_promo is given can be read
TaxonomyReadable(e, categories_path) == categories_path \in e.taxonomies

\* [exc, val] of "[categorize_promo(p, categories_path) for p in promos]"
Categorize(promos_, parser, e, categories_path) ==
    IF parser.categorize # "ok" THEN [exc |-> parser.categorize, val |-> << >>]
    ELSE IF ~TaxonomyReadable(e, categories_path) /\ e.unreadable_taxonomy = "raises"
         THEN [exc |-> "FileNotFoundError/JSONDecodeError", val |-> << >>]
    ELSE LET category == IF TaxonomyReadable(e, categories_path)
                         THEN parser.category ELSE "Other"
         IN  Return([k \in 1..Len(promos_) |->
                       [f \in DOMAIN promos_[k] \cup {"category"} |->
                          IF f = "category" THEN category ELSE promos_[k][f]]])

\* The fallback's loop "for promo in promos": subject and merchant filled in
FillFromHeaders(promos_, subject, merchant) ==
    [k \in 1..Len(promos_) |->
       LET promo == promos_[k] IN
       [f \in DOMAIN promo \cup {"subject", "merchant"} |->
          CASE f = "subject"  -> IF Falsy(Get(promo, "subject", "")) THEN subject
                                 ELSE promo.subject
            [] f = "merchant" -> IF Falsy(Get(promo, "merchant", "")) THEN merchant
                                 ELSE promo.merchant
            [] OTHER          -> promo[f]]]

\* "try: extract_promos(text, subject, sender) except TypeError: try: ...
\* except Exception: continue".  [exc, val, skip]: skip is the "continue"
ExtractPromos(parser, subject) ==
    LET first == parser.extract3 IN
    IF first.exc = "" THEN [exc |-> "", val |-> first.val, skip |-> FALSE]
    ELSE IF first.exc # "TypeError" THEN [exc |-> first.exc, val |-> << >>, skip |-> FALSE]
    ELSE LET second == parser.extract1 IN
         IF second.exc # "" THEN [exc |-> "", val |-> << >>, skip |-> TRUE]
         ELSE IF \E k \in 1..Len(second.val) : Falsy(Get(second.val[k], "merchant", ""))
              THEN IF parser.merchant_name.exc # ""
                   THEN [exc |-> "", val |-> << >>, skip |-> TRUE]
                   ELSE [exc |-> "", skip |-> FALSE,
                         val |-> FillFromHeaders(second.val, subject, parser.merchant_name.val)]
              ELSE [exc |-> "", skip |-> FALSE,
                    val |-> FillFromHeaders(second.val, subject, "")]

\* config.get("report", {}).get("categories_path", "categories.json")
CategoriesPath(config) == Get(Get(config, "report", EmptyDict), "categories_path", "categories.json")

\* "except Exception: all_promos.extend(promos)" of the categorization
CategorizeOrKeep(promos_, parser, e, config) ==
    LET categorized == Categorize(promos_, parser, e, CategoriesPath(config)) IN
    IF categorized.exc # "" THEN promos_ ELSE categorized.val

\* The loop over the emails from email k on; [exc, val]
RECURSIVE ExtractLoop(_, _, _, _, _)
ExtractLoop(emails, k, all_promos, config, e) ==
    IF k > Len(emails) THEN Return(all_promos)
    ELSE LET email == emails[k]
             parsed == parse_email(email.msg)
         IN  IF parsed.exc # "" THEN [exc |-> parsed.exc, val |-> << >>]
             ELSE IF Falsy(parsed.val[1]) THEN ExtractLoop(emails, k + 1, all_promos, config, e)
             ELSE LET found == ExtractPromos(email.parser, parsed.val[2]) IN
                  IF found.exc # "" THEN [exc |-> found.exc, val |-> << >>]
                  ELSE IF found.skip \/ found.val = << >>
                       THEN ExtractLoop(emails, k + 1, all_promos, config, e)
                  ELSE ExtractLoop(emails, k + 1,
                                   all_promos \o CategorizeOrKeep(found.val, email.parser, e, config),
                                   config, e)

\* extract_promos_from_emails(emails, config); the import of promo_parser
\* fails with SetupError when the module is not there
extract_promos_from_emails(emails, config, e) ==
    IF "promo_parser.py" \notin e.present THEN [exc |-> "SetupError", val |-> << >>]
    ELSE ExtractLoop(emails, 1, << >>, config, e)

-----------------------------------------------------------------------------
(* Inputs of a run of main: the inbox, and what main finds around it *)

MaxEmails == 2

Headers(subject, sender) ==
    << [name |-> "Subject", value |-> subject], [name |-> "From", value |-> sender] >>

\* A multipart message with the text in its text/plain part
PlainMessage(subject, sender, data) ==
    [id |-> "18c2f0a1",
     payload |-> [headers |-> Headers(subject, sender),
                  body    |-> [size |-> 0],
                  parts   |-> << [mimeType |-> "text/html",
                                  body |-> [data |-> Encoded("<p>Use code</p>")]],
                                 [mimeType |-> "text/plain", body |-> [data |-> data]] >>]]

\* A message with no parts and the text in the body of its payload
BodyMessage(subject, sender, data) ==
    [id |-> "18c2f0a2",
     payload |-> [headers |-> Headers(subject, sender), body |-> [data |-> data]]]

\* A message the API returned without its payload
BareMessage == [id |-> "18c2f0a3"]

Southwest == "Southwest Airlines - Flash Sale"
NordstromSale == "Nordstrom - Fall Sale"

\* promo_parser finds these promos in the message, and a category for them
Finds(found, category) ==
    [extract3 |-> Return(found), extract1 |-> Return(found),
     merchant_name |-> Return("Nordstrom"), categorize |-> "ok", category |-> category]

Entry(msg, parser, fetched) == [msg |-> msg, parser |-> parser, fetched |-> fetched]

Save25 == Candidate("SAVE25NOW", "Nordstrom", "25% off", "November 1, 2025", NordstromSale)
Flight40 == Candidate("FLIGHT40", "Southwest Airlines", "40% off", "October 20, 2025", Southwest)
CodeOnly == Candidate("FLIGHT40", Missing, "40% off", Missing, Missing)

InboxEntries ==
    {\* promos found, in a text/plain part and in the main body
     Entry(PlainMessage(NordstromSale, "Nordstrom <offers@nordstrom.com>",
                        Encoded("Use code: SAVE25NOW Ends: November 1, 2025")),
           Finds(<<Save25>>, "Retail"), TRUE),
     Entry(BodyMessage("Nordstrom - Your exclusive 25% discount awaits", "offers@nordstrom.com",
                       Encoded("Save 25% with code SAVE25NOW")),
           Finds(<<Save25>>, "Retail"), TRUE),
     \* no promo in the text
     Entry(PlainMessage("Thanks", "shop@example.com", Encoded("Thanks for shopping with us!")),
           Finds(<< >>, "Other"), TRUE),
     \* no text: no payload, undecodable data, empty data, no data at all
     Entry(BareMessage, Finds(<<Flight40>>, "Flights"), TRUE),
     Entry(PlainMessage(Southwest, "deals@southwest.com", BadPadding),
           Finds(<<Flight40>>, "Flights"), TRUE),
     Entry(BodyMessage(Southwest, "deals@southwest.com", NotUtf8),
           Finds(<<Flight40>>, "Flights"), TRUE),
     Entry(PlainMessage(Southwest, "deals@southwest.com", Encoded("")),
           Finds(<<Flight40>>, "Flights"), TRUE),
     \* the message could not be fetched
     Entry(BareMessage, Finds(<<Flight40>>, "Flights"), FALSE),
     \* extract_promos takes one argument only
     Entry(PlainMessage(Southwest, "deals@southwest.com", Encoded("Use promo code FLIGHT40")),
           [extract3 |-> [exc |-> "TypeError", val |-> << >>], extract1 |-> Return(<<CodeOnly>>),
            merchant_name |-> Return("Southwest Airlines"), categorize |-> "ok",
            category |-> "Flights"], TRUE),
     \* ... and fails, or extract_merchant_name is not there
     Entry(PlainMessage(Southwest, "deals@southwest.com", Encoded("Use promo code FLIGHT40")),
           [extract3 |-> [exc |-> "TypeError", val |-> << >>],
            extract1 |-> [exc |-> "ValueError", val |-> << >>],
            merchant_name |-> Return("Southwest Airlines"), categorize |-> "ok",
            category |-> "Flights"], TRUE),
     Entry(PlainMessage(Southwest, "deals@southwest.com", Encoded("Use promo code FLIGHT40")),
           [extract3 |-> [exc |-> "TypeError", val |-> << >>], extract1 |-> Return(<<CodeOnly>>),
            merchant_name |-> [exc |-> "ImportError", val |-> ""], categorize |-> "ok",
            category |-> "Flights"], TRUE),
     \* extract_promos raises another error
     Entry(PlainMessage(Southwest, "deals@southwest.com", Encoded("Use promo code FLIGHT40")),
           [extract3 |-> [exc |-> "ValueError", val |-> << >>], extract1 |-> Return(<< >>),
            merchant_name |-> Return(""), categorize |-> "ok", category |-> "Flights"], TRUE),
     \* categorize_promo raises on the promos found
     Entry(PlainMessage(Southwest, "deals@southwest.com", Encoded("Use promo code FLIGHT40")),
           [extract3 |-> Return(<<Flight40>>), extract1 |-> Return(<<Flight40>>),
            merchant_name |-> Return(""), categorize |-> "KeyError", category |-> "Flights"],
           TRUE)}

RECURSIVE Inboxes(_)
Inboxes(n) ==
    IF n = 0 THEN {<< >>}
    ELSE Inboxes(n - 1) \cup
         {Append(b, m) : b \in {b \in Inboxes(n - 1) : Len(b) = n - 1}, m \in InboxEntries}

\* config.yaml as yaml.safe_load reads it
Config(output_path) ==
    [gmail  |-> [credentials_path |-> "credentials.json", query |-> "category:promotions"],
     report |-> [output_path |-> output_path]]

ConfigElsewhere ==
    [gmail  |-> [credentials_path |-> "credentials.json", query |-> "category:promotions"],
     report |-> [output_path |-> "weekly_promo_report.json",
                 categories_path |-> "data/categories.json"]]

AllFiles == {"config.yaml", "categories.json", "promo_parser.py", "credentials.json", "token.json"}

\* Everything in place
GoodEnv ==
    [present    |-> AllFiles,
     config     |-> [yaml |-> "ok", data |-> Config("weekly_promo_report.json")],
     taxonomies |-> {"categories.json"},
     unreadable_taxonomy |-> "raises",
     mail       |-> "ok",
     disk       |-> "ok",
     token      |-> "valid",
     refresh    |-> "ok",
     flow       |-> "ok",
     build      |-> "ok"]

Envs ==
    {GoodEnv,
     [GoodEnv EXCEPT !.present = AllFiles \ {"token.json"}],
     [GoodEnv EXCEPT !.config.data = Config("reports/weekly.md")],
     \* a required file is not there
     [GoodEnv EXCEPT !.present = AllFiles \ {"config.yaml"}],
     [GoodEnv EXCEPT !.present = AllFiles \ {"categories.json"}, !.taxonomies = {}],
     [GoodEnv EXCEPT !.present = AllFiles \ {"promo_parser.py"}],
     [GoodEnv EXCEPT !.present = AllFiles \ {"credentials.json", "token.json"}],
     \* config.yaml is not YAML, or lacks a section
     [GoodEnv EXCEPT !.config = [yaml |-> "YAMLError", data |-> EmptyDict]],
     [GoodEnv EXCEPT !.config.data = [gmail |-> Config("").gmail]],
     \* categories.json is there and is not a taxonomy; the taxonomy is elsewhere
     [GoodEnv EXCEPT !.taxonomies = {}],
     [GoodEnv EXCEPT !.taxonomies = {}, !.unreadable_taxonomy = "defaults"],
     [GoodEnv EXCEPT !.config.data = ConfigElsewhere],
     \* the mail source or the disk fails
     [GoodEnv EXCEPT !.mail = "HttpError"],
     [GoodEnv EXCEPT !.disk = "OSError"],
     [GoodEnv EXCEPT !.disk = "interrupted"]}

-----------------------------------------------------------------------------
(* main of gmail_agent_improved.py, one action for each call it makes *)

NotExtracted == [exc |-> "not called", val |-> << >>]

NotAuthenticated == [creds |-> "not called", written |-> FALSE]

MainStart ==
    [pc |-> "validate_setup", exit |-> "", config |-> EmptyDict, emails |-> << >>,
     extracted |-> NotExtracted, auth |-> NotAuthenticated]

\* main is left: by return, sys.exit(1) or sys.exit(130)
Leave(how) == [main EXCEPT !.pc = "done", !.exit = how]

PipelineUnchanged == UNCHANGED <<now, promos, result, exp_str, exp_date, urgency,
                                 discount_str, discount_value, db, demo, batch, dedup_calls, api>>

\* validate_setup(): the issues it returns
validate_setup(e) ==
    {f \in {"config.yaml", "categories.json", "promo_parser.py"} : f \notin e.present}

\* load_config(): [exc, val]; every error becomes ConfigurationError
load_config(e) ==
    IF "config.yaml" \notin e.present \/ e.config.yaml # "ok"
       \/ (\E section \in {"gmail", "report"} : section \notin DOMAIN e.config.data)
       \/ "query" \notin DOMAIN e.config.data.gmail
       \/ "output_path" \notin DOMAIN e.config.data.report
    THEN [exc |-> "ConfigurationError", val |-> EmptyDict]
    ELSE Return(e.config.data)

\* What token.json holds, e.token, as the google-auth library reports it:
\*   "valid"            creds.valid
\*   "expired"          not valid, creds.expired, and a refresh_token
\*   "no refresh token" not valid, creds.expired, and refresh_token empty
\*   "no token"         not valid and not creds.expired: no access token
\*   "unreadable"       Credentials.from_authorized_user_file raises
TokenContents == {"valid", "expired", "no refresh token", "no token", "unreadable"}

\* creds after "if os.path.exists(token_path): try: ... except: creds = None"
LoadedCreds(e) ==
    IF "token.json" \notin e.present \/ e.token = "unreadable" THEN "None" ELSE e.token

\* creds after "if creds and creds.expired and creds.refresh_token:"
RefreshedCreds(e) ==
    IF LoadedCreds(e) = "expired"
    THEN (IF e.refresh = "ok" THEN "valid" ELSE "None")
    ELSE LoadedCreds(e)

\* The result of get_gmail_service: the exception or "", the files present
\* and the content of token.json afterwards, the credentials the function
\* ended with, and whether it wrote token.json
Authenticated(exc, e, creds, written) ==
    [exc     |-> exc,
     val     |-> IF written THEN e.present \cup {"token.json"} ELSE e.present,
     token   |-> IF written THEN creds ELSE e.token,
     creds   |-> creds,
     written |-> written]

\* get_gmail_service(creds_path)
get_gmail_service(e, creds_path) ==
    IF LoadedCreds(e) = "valid"
    THEN Authenticated(IF e.build = "ok" THEN "" ELSE "SetupError", e, "valid", FALSE)
    ELSE IF RefreshedCreds(e) = "None" /\ creds_path \notin e.present
    THEN Authenticated("SetupError", e, "None", FALSE)
    ELSE IF RefreshedCreds(e) = "None" /\ e.flow # "ok"
    THEN Authenticated("SetupError", e, "None", FALSE)
    ELSE LET creds == IF RefreshedCreds(e) = "None" THEN "valid" ELSE RefreshedCreds(e) IN
         Authenticated(IF e.build = "ok" THEN "" ELSE "SetupError", e, creds, TRUE)

\* fetch_promo_emails(service, query): [exc, val]; a message that cannot be
\* fetched is left out
fetch_promo_emails(e, messages) ==
    IF e.mail # "ok" THEN [exc |-> e.mail, val |-> << >>]
    ELSE Return(SelectSeq(messages, LAMBDA m : m.fetched))

\* str.replace(old, new): every occurrence, from the left
RECURSIVE Replace(_, _, _)
Replace(s, old, new) ==
    IF Len(s) < Len(old) THEN s
    ELSE IF SubSeq(s, 1, Len(old)) = old
         THEN new \o Replace(SubSeq(s, Len(old) + 1, Len(s)), old, new)
         ELSE Ch(s, 1) \o Replace(SubSeq(s, 2, Len(s)), old, new)

EndsWith(s, suffix) ==
    Len(s) >= Len(suffix) /\ SubSeq(s, Len(s) - Len(suffix) + 1, Len(s)) = suffix

\* The path save_results writes to
JsonPath(output_path) ==
    IF EndsWith(output_path, ".md") THEN Replace(output_path, ".md", ".json") ELSE output_path

ValidateSetup ==
    /\ main.pc = "validate_setup"
    /\ main' = IF validate_setup(env) # {} THEN Leave("exit 1")
               ELSE [main EXCEPT !.pc = "load_config"]
    /\ UNCHANGED <<env, inbox, files>>
    /\ PipelineUnchanged

LoadConfig ==
    /\ main.pc = "load_config"
    /\ LET r == load_config(env) IN
       main' = IF r.exc # "" THEN Leave("exit 1")
               ELSE [main EXCEPT !.pc = "get_gmail_service", !.config = r.val]
    /\ UNCHANGED <<env, inbox, files>>
    /\ PipelineUnchanged

GetGmailService ==
    /\ main.pc = "get_gmail_service"
    /\ IF "credentials_path" \notin DOMAIN main.config.gmail
       THEN main' = Leave("exit 1") /\ env' = env
       ELSE LET r == get_gmail_service(env, main.config.gmail.credentials_path) IN
            /\ main' = IF r.exc # ""
                       THEN [Leave("exit 1") EXCEPT
                                !.auth = [creds |-> r.creds, written |-> r.written]]
                       ELSE [main EXCEPT !.pc = "fetch_promo_emails",
                                         !.auth = [creds |-> r.creds, written |-> r.written]]
            /\ env' = [env EXCEPT !.present = r.val, !.token = r.token]
    /\ UNCHANGED <<inbox, files>>
    /\ PipelineUnchanged

\* ... without "if not emails: return"
FetchPromoEmails_NoEarlyReturn ==
    /\ main.pc = "fetch_promo_emails"
    /\ LET r == fetch_promo_emails(env, inbox) IN
       main' = IF r.exc # "" THEN Leave("exit 1")
               ELSE [main EXCEPT !.pc = "extract_promos_from_emails", !.emails = r.val]
    /\ UNCHANGED <<env, inbox, files>>
    /\ PipelineUnchanged

FetchPromoEmails ==
    /\ main.pc = "fetch_promo_emails"
    /\ LET r == fetch_promo_emails(env, inbox) IN
       main' = IF r.exc # "" THEN Leave("exit 1")
               ELSE IF r.val = << >> THEN Leave("return")
               ELSE [main EXCEPT !.pc = "extract_promos_from_emails", !.emails = r.val]
    /\ UNCHANGED <<env, inbox, files>>
    /\ PipelineUnchanged

ExtractPromosFromEmails ==
    /\ main.pc = "extract_promos_from_emails"
    /\ LET r == extract_promos_from_emails(main.emails, main.config, env) IN
       main' = IF r.exc # "" THEN [Leave("exit 1") EXCEPT !.extracted = r]
               ELSE [main EXCEPT !.pc = "save_results", !.extracted = r]
    /\ UNCHANGED <<env, inbox, files>>
    /\ PipelineUnchanged

\* save_results(promos, output_path).  The file is opened for writing and the
\* JSON dumped; "interrupted" is a KeyboardInterrupt during the dump
SaveResults ==
    /\ main.pc = "save_results"
    /\ LET path == JsonPath(main.config.report.output_path) IN
       CASE env.disk = "ok" ->
              /\ files' = Append(files, [path |-> path, promos |-> main.extracted.val,
                                         complete |-> TRUE])
              /\ main' = [main EXCEPT !.pc = "print_summary"]
         [] env.disk = "interrupted" ->
              /\ files' = Append(files, [path |-> path, promos |-> main.extracted.val,
                                         complete |-> FALSE])
              /\ main' = Leave("exit 130")
         [] OTHER ->
              /\ files' = files
              /\ main' = Leave("exit 1")
    /\ UNCHANGED <<env, inbox>>
    /\ PipelineUnchanged

PrintSummary ==
    /\ main.pc = "print_summary"
    /\ main' = Leave("return")
    /\ UNCHANGED <<env, inbox, files>>
    /\ PipelineUnchanged

\* Ctrl-C between two calls of main: "except KeyboardInterrupt: sys.exit(130)"
Interrupt ==
    /\ main.pc \notin {"idle", "done"}
    /\ main' = Leave("exit 130")
    /\ UNCHANGED <<env, inbox, files>>
    /\ PipelineUnchanged

InitMain ==
    /\ now = StartClock
    /\ env \in Envs
    /\ inbox \in Inboxes(MaxEmails)
    /\ main = MainStart
    /\ files = << >>
    /\ demo = [pc |-> "idle"] /\ batch = << >> /\ dedup_calls = << >>
    /\ IdleApi
    /\ IdleEnrich /\ IdleUrgency /\ IdleDiscount /\ IdleDb

NextMain ==
    \/ ValidateSetup \/ LoadConfig \/ GetGmailService \/ FetchPromoEmails
    \/ ExtractPromosFromEmails \/ SaveResults \/ PrintSummary \/ Interrupt

SpecMain == InitMain /\ [][NextMain]_vars

-----------------------------------------------------------------------------
(* Properties of a run of main (SpecMain) *)

\* The promos of the report file, once it is written in full
Written == {w \in 1..Len(files) : files[w].complete}

HasCode(p) == ~Falsy(Get(p, "code", ""))
SameCode(p, q) == HasCode(p) /\ HasCode(q) /\ Lower(p.code) = Lower(q.code)

\* C11 as the spec states it: when two or more emails of a run yield
\* candidates with the same non-empty code, compared without regard to case,
\* the output of the run has exactly one record for that code.
C11_OneRecordPerCode ==
    \A w \in Written :
        \A i, j \in 1..Len(files[w].promos) :
            SameCode(files[w].promos[i], files[w].promos[j]) => i = j

-----------------------------------------------------------------------------
(* deduplicate_promos of promo_parser.  The module is not among the sources: *)
(* this is the Deduplicator as the specification describes it (4.4).        *)

MaxDedup == 3

Text(p, field) == IF Falsy(Get(p, field, "")) THEN "" ELSE p[field]

\* The key of the grouping: the normalized code, or for a candidate with no
\* code the normalized merchant and discount
DedupKey(p) ==
    IF HasCode(p) THEN <<"code", Lower(p.code), "">>
    ELSE <<"offer", Lower(Text(p, "merchant")), Lower(Text(p, "discount"))>>

\* The records of the batch with the key of record i, in the order of the batch
Group(list, i) == SelectSeq(list, LAMBDA p : DedupKey(p) = DedupKey(list[i]))

\* A value counts as missing when it is empty or, for the category, the default
Lacks(p, field) == Text(p, field) = "" \/ (field = "category" /\ p[field] = "Other")

\* The record a group is merged into: the earliest record, with the first
\* code, merchant, category and expiration text that any record of the group has
Merge(group) ==
    LET base == group[1]
        having(f) == SelectSeq(group, LAMBDA p : ~Lacks(p, f))
        filled == {f \in {"code", "merchant", "category", "expiration"} : having(f) # << >>}
    IN  [f \in DOMAIN base \cup filled |->
           IF f \in filled THEN having(f)[1][f] ELSE base[f]]

\* Two candidates that a scan of pairs takes for duplicates: the same code, or
\* the same merchant and discount, whether or not they have a code
PairDuplicates(p, q) ==
    \/ SameCode(p, q)
    \/ /\ Lower(Text(p, "merchant")) = Lower(Text(q, "merchant"))
       /\ Lower(Text(p, "discount")) = Lower(Text(q, "discount"))

\* A scan that compares each candidate with the ones kept before it, and
\* merges at the end: kept is the list of groups so far
RECURSIVE ScanPairs(_, _, _)
ScanPairs(list, k, kept) ==
    IF k > Len(list) THEN [g \in 1..Len(kept) |-> Merge(kept[g])]
    ELSE LET dup == {g \in 1..Len(kept) : PairDuplicates(kept[g][1], list[k])} IN
         IF dup = {} THEN ScanPairs(list, k + 1, Append(kept, <<list[k]>>))
         ELSE LET g == Min(dup) IN
              ScanPairs(list, k + 1, [kept EXCEPT ![g] = Append(kept[g], list[k])])

deduplicate_promos_PairwiseScan(list) == ScanPairs(list, 1, << >>)

\* Only a candidate next to its duplicate is dropped
RECURSIVE deduplicate_promos_AdjacentOnly(_)
deduplicate_promos_AdjacentOnly(list) ==
    IF Len(list) < 2 THEN list
    ELSE IF DedupKey(list[1]) = DedupKey(list[2])
         THEN deduplicate_promos_AdjacentOnly(<<list[1]>> \o SubSeq(list, 3, Len(list)))
         ELSE <<list[1]>> \o deduplicate_promos_AdjacentOnly(Tail(list))

\* The merged groups from record k on, each at the place of its first record
RECURSIVE MergedFrom(_, _)
MergedFrom(list, k) ==
    IF k > Len(list) THEN << >>
    ELSE IF \E j \in 1..(k - 1) : DedupKey(list[j]) = DedupKey(list[k])
         THEN MergedFrom(list, k + 1)
         ELSE <<Merge(Group(list, k))>> \o MergedFrom(list, k + 1)

deduplicate_promos(list) == MergedFrom(list, 1)

-----------------------------------------------------------------------------
(* SpecDedup: a call of deduplicate_promos on a batch, and a second call    *)
(* on the batch the first returned or on the batch in another order        *)

WithCategory(p, category) ==
    [f \in DOMAIN p \cup {"category"} |-> IF f = "category" THEN category ELSE p[f]]

DedupCandidates ==
    {WithCategory(Save25, "Retail"),
     WithCategory(Candidate("save25now", "", "25% off", Missing,
                            "Your exclusive 25% discount awaits"), "Other"),
     WithCategory(Candidate("SAVE25NOW", "Macy's", "10% off", "11/15/2025", "Macy's - Sale"),
                  "Other"),
     WithCategory(Candidate(Missing, "Nordstrom", "25% off", "11/01/2025", NordstromSale),
                  "Other"),
     WithCategory(Candidate("", "NORDSTROM", "25% OFF", Missing, "Last Chance"), "Retail"),
     Candidate(Missing, "Macy's", "10% off", Missing, "Macy's - Sale")}

RECURSIVE DedupBatches(_)
DedupBatches(n) ==
    IF n = 0 THEN {<< >>}
    ELSE DedupBatches(n - 1) \cup
         {Append(b, c) : b \in {b \in DedupBatches(n - 1) : Len(b) = n - 1},
                         c \in DedupCandidates}

\* list in the order p, a permutation of its positions
Permuted(list, p) == [k \in 1..Len(list) |-> list[p[k]]]
Orders(n) == {p \in [1..n -> 1..n] : \A i, j \in 1..n : p[i] = p[j] => i = j}

DedupUnchanged == UNCHANGED <<now, promos, result, exp_str, exp_date, urgency,
                              discount_str, discount_value, db, env, inbox, main,
                              files, demo, api>>

Call(list) == [input |-> list, output |-> deduplicate_promos(list)]

InitDedup ==
    /\ now = StartClock
    /\ batch \in DedupBatches(MaxDedup)
    /\ dedup_calls = << >>
    /\ env = << >> /\ inbox = << >> /\ files = << >>
    /\ main = [pc |-> "idle"] /\ demo = [pc |-> "idle"]
    /\ IdleApi
    /\ IdleEnrich /\ IdleUrgency /\ IdleDiscount /\ IdleDb

\* deduplicate_promos(batch)
Deduplicate ==
    /\ dedup_calls = << >>
    /\ dedup_calls' = Append(dedup_calls, Call(batch))
    /\ UNCHANGED batch
    /\ DedupUnchanged

\* deduplicate_promos on the batch that the first call returned
DeduplicateAgain ==
    /\ Len(dedup_calls) = 1
    /\ dedup_calls' = Append(dedup_calls, Call(dedup_calls[1].output))
    /\ UNCHANGED batch
    /\ DedupUnchanged

\* deduplicate_promos on the batch in another order
DeduplicateReordered ==
    /\ Len(dedup_calls) = 1
    /\ \E p \in Orders(Len(batch)) :
          /\ Permuted(batch, p) # batch
          /\ dedup_calls' = Append(dedup_calls, Call(Permuted(batch, p)))
    /\ UNCHANGED batch
    /\ DedupUnchanged

NextDedup == Deduplicate \/ DeduplicateAgain \/ DeduplicateReordered

SpecDedup == InitDedup /\ [][NextDedup]_vars

\* The keys of a batch, as a list and as a set
KeyList(list) == [k \in 1..Len(list) |-> DedupKey(list[k])]
KeySet(list) == {DedupKey(list[k]) : k \in 1..Len(list)}
OneRecordPerKey(list) == \A i, j \in 1..Len(list) : DedupKey(list[i]) = DedupKey(list[j]) => i = j
IsPermutation(a, b) ==
    Len(a) = Len(b) /\ \E p \in Orders(Len(a)) : Permuted(a, p) = b

\* C12: deduplicate_promos on a batch that deduplicate_promos has returned
\* returns that batch: the same records in the same order.
C12_DedupIdempotent ==
    \A c, d \in 1..Len(dedup_calls) :
        (c < d /\ dedup_calls[d].input = dedup_calls[c].output)
            => dedup_calls[d].output = dedup_calls[d].input

\* A batch of three was cut to fewer records, and the second call got that output
C12_Witness ==
    /\ Len(dedup_calls) = 2
    /\ Len(dedup_calls[1].input) = 3
    /\ Len(dedup_calls[1].output) \in 1..2
    /\ dedup_calls[2].input = dedup_calls[1].output
    /\ dedup_calls[2].output = dedup_calls[1].output

\* C13: whatever the order of a batch, deduplicate_promos leaves the same set
\* of records by key (the normalized code, or the normalized merchant and
\* discount of a record with no code), one record for each key.
C13_DedupOrderIndependent ==
    \A c, d \in 1..Len(dedup_calls) :
        /\ OneRecordPerKey(dedup_calls[c].output)
        /\ IsPermutation(dedup_calls[c].input, dedup_calls[d].input)
             => KeySet(dedup_calls[c].output) = KeySet(dedup_calls[d].output)

\* The batch was deduplicated in two different orders, and duplicates went
C13_Witness ==
    /\ Len(dedup_calls) = 2
    /\ dedup_calls[1].input # dedup_calls[2].input
    /\ IsPermutation(dedup_calls[1].input, dedup_calls[2].input)
    /\ Len(dedup_calls[1].output) < Len(dedup_calls[1].input)
    /\ dedup_calls[1].output # dedup_calls[2].output

-----------------------------------------------------------------------------
(* simulate_agent of demo_simulation.py.  inbox holds the sample emails,   *)
(* each with what promo_parser makes of it; demo is the position in the    *)
(* function and its locals.                                                *)

SampleEmail(subject, sender, body, parser) ==
    [subject |-> subject, sender |-> sender, body |-> body, parser |-> parser]

SampleEmails ==
    {SampleEmail("Southwest Airlines - Flash Sale: 40% Off All Flights This Weekend!",
                 "deals@southwest.com", "Use promo code FLIGHT40 at checkout",
                 Finds(<<Flight40>>, "Flights")),
     SampleEmail("Nordstrom - Your exclusive 25% discount awaits", "offers@nordstrom.com",
                 "Use code: SAVE25NOW", Finds(<<Save25>>, "Retail")),
     SampleEmail(NordstromSale, "offers@nordstrom.com", "Code SAVE25NOW, no end date",
                 Finds(<<Candidate("SAVE25NOW", "", "25% off", Missing, NordstromSale)>>,
                       "Other")),
     SampleEmail("Thanks", "shop@example.com", "Thanks for shopping with us!",
                 Finds(<< >>, "Other")),
     SampleEmail("Best Buy - Special Offer Inside - No Code Needed!", "deals@bestbuy.com",
                 "20% off automatically",
                 [extract3 |-> [exc |-> "ValueError", val |-> << >>], extract1 |-> Return(<< >>),
                  merchant_name |-> Return(""), categorize |-> "ok", category |-> "Other"]),
     SampleEmail("Target - Free Shipping + 15% Off Your Order", "promotions@target.com",
                 "Code: SHIP15FREE",
                 [extract3 |-> Return(<<Flight40>>), extract1 |-> Return(<<Flight40>>),
                  merchant_name |-> Return(""), categorize |-> "KeyError",
                  category |-> "Other"])}

RECURSIVE SampleBatches(_)
SampleBatches(n) ==
    IF n = 0 THEN {<< >>}
    ELSE SampleBatches(n - 1) \cup
         {Append(b, m) : b \in {b \in SampleBatches(n - 1) : Len(b) = n - 1},
                         m \in SampleEmails}

\* The default categories file of categorize_promo(p) is in place
DemoEnv == GoodEnv

DemoStart ==
    [pc |-> "emails", i |-> 1, all_promos |-> << >>, deduplicated_after |-> << >>,
     unique_promos |-> << >>, enriched_from |-> << >>, enriched |-> << >>, raised |-> ""]

DemoUnchanged == UNCHANGED <<now, promos, result, exp_str, exp_date, urgency,
                             discount_str, discount_value, db, env, inbox, main,
                             batch, dedup_calls, api>>

\* The for loop over the emails has ended
LoopDone_AfterFirstEmail(i, emails) == i > Len(emails) \/ i > 1

LoopDone(i, emails) == i > Len(emails)

\* One turn of the loop: extract_promos and categorize_promo on email i
ProcessSampleEmail ==
    /\ demo.pc = "emails" /\ ~LoopDone(demo.i, inbox)
    /\ LET email == inbox[demo.i]
           found == email.parser.extract3
           categorized == Categorize(found.val, email.parser, env, "categories.json")
       IN  demo' = IF found.exc # "" THEN [demo EXCEPT !.pc = "raised", !.raised = found.exc]
                   ELSE IF categorized.exc # ""
                        THEN [demo EXCEPT !.pc = "raised", !.raised = categorized.exc]
                   ELSE [demo EXCEPT !.i = demo.i + 1,
                                     !.all_promos = demo.all_promos \o categorized.val]
    /\ UNCHANGED files
    /\ DemoUnchanged

\* unique_promos = deduplicate_promos(all_promos)
DeduplicateSample ==
    /\ demo.pc = "emails" /\ LoopDone(demo.i, inbox)
    /\ demo' = [demo EXCEPT !.pc = "dashboard",
                            !.deduplicated_after = <<demo.i - 1>>,
                            !.unique_promos = deduplicate_promos(demo.all_promos)]
    /\ UNCHANGED files
    /\ DemoUnchanged

\* generate_html_dashboard(unique_promos, ...): enrich_promo_data, then
\* p['category'] of every enriched record
GenerateDashboard ==
    /\ demo.pc = "dashboard"
    /\ LET r == enrich_promo_data(demo.unique_promos, now) IN
       demo' = IF r.exc # ""
               THEN [demo EXCEPT !.pc = "raised", !.raised = r.exc,
                                 !.enriched_from = <<demo.unique_promos>>]
               ELSE IF \E k \in 1..Len(r.val) : "category" \notin DOMAIN r.val[k]
                    THEN [demo EXCEPT !.pc = "raised", !.raised = "KeyError",
                                      !.enriched_from = <<demo.unique_promos>>,
                                      !.enriched = r.val]
               ELSE [demo EXCEPT !.pc = "save_json",
                                 !.enriched_from = <<demo.unique_promos>>,
                                 !.enriched = r.val]
    /\ UNCHANGED files
    /\ DemoUnchanged

\* json.dump(unique_promos, f) to demo_promos.json
SaveJson ==
    /\ demo.pc = "save_json"
    /\ files' = Append(files, [path |-> "demo_promos.json", promos |-> demo.unique_promos,
                               complete |-> TRUE])
    /\ demo' = [demo EXCEPT !.pc = "done"]
    /\ DemoUnchanged

InitDemo ==
    /\ now = StartClock
    /\ env = DemoEnv
    /\ inbox \in SampleBatches(MaxEmails)
    /\ demo = DemoStart
    /\ files = << >>
    /\ main = [pc |-> "idle"] /\ batch = << >> /\ dedup_calls = << >>
    /\ IdleApi
    /\ IdleEnrich /\ IdleUrgency /\ IdleDiscount /\ IdleDb

NextDemo == ProcessSampleEmail \/ DeduplicateSample \/ GenerateDashboard \/ SaveJson

SpecDemo == InitDemo /\ [][NextDemo]_vars

\* What extraction and categorization make of all the emails of the batch
RECURSIVE AllCategorized(_, _)
AllCategorized(emails, k) ==
    IF k > Len(emails) THEN << >>
    ELSE Categorize(emails[k].parser.extract3.val, emails[k].parser, DemoEnv,
                    "categories.json").val
         \o AllCategorized(emails, k + 1)

TaxonomyBroken == ~TaxonomyReadable(env, CategoriesPath(env.config.data))

\* C15 as the spec states it: with the category taxonomy missing or
\* malformed the run stops with a configuration error before any email is
\* processed: extraction is never called, nothing is written, and a run that
\* fetched emails does not end in a normal return.
C15_BrokenTaxonomyStopsRun ==
    TaxonomyBroken =>
        /\ main.extracted = NotExtracted
        /\ files = << >>
        /\ (main.pc = "done" /\ main.emails # << >>) => main.exit \in {"exit 1", "exit 130"}

\* C16 as the spec states it: once promo_parser is imported, whatever the
\* extraction or the categorization of one email raises,
\* extract_promos_from_emails returns a list.
C16_ExtractionReturnsList ==
    (main.extracted # NotExtracted /\ "promo_parser.py" \in env.present)
        => main.extracted.exc = ""


\* The body of the message is empty, or parsing or decoding it fails
Unreadable(email) ==
    LET r == ParseEmailBody(email.msg) IN r.exc # "" \/ Falsy(r.val[1])

Readable(emails) == SelectSeq(emails, LAMBDA email : ~Unreadable(email))

\* C17: a message whose body is empty or cannot be parsed or decoded counts
\* as an extraction miss: the outcome of extract_promos_from_emails is the
\* outcome for the same emails without those messages, so they add no
\* candidate, raise nothing, and the messages after them are processed as if
\* they were not there.
C17_UnreadableIsMiss ==
    main.extracted # NotExtracted =>
        /\ main.extracted = extract_promos_from_emails(Readable(main.emails), main.config, env)
        /\ Readable(main.emails) = << >> /\ "promo_parser.py" \in env.present
              => main.extracted = Return(<< >>)

\* A message that cannot be decoded came first, and the promo of the
\* message after it is in the result
C17_Witness ==
    /\ main.extracted.exc = ""
    /\ Len(main.emails) = 2
    /\ ParseEmailBody(main.emails[1].msg).exc # ""
    /\ ~Unreadable(main.emails[2])
    /\ Len(main.extracted.val) = 1


-----------------------------------------------------------------------------
(* SpecPipeline: the two stages that hand candidates on, each on its own:  *)
(* a call of enrich_promo_data at any time, or a run of main               *)

InitPipeline == Init \/ InitMain

\* enrich_promo_data is called outside a run of main (main has no call of it)
EnrichAlone == main.pc = "idle" /\ Next

NextPipeline == EnrichAlone \/ NextMain

SpecPipeline == InitPipeline /\ [][NextPipeline]_vars

\* Candidate p is not expired at instant t: its days_left is None or >= 0
NotExpiredAt(p, t) ==
    LET days_left == get_urgency_level(ExpirationOf(p), t)[3] IN
    IsNone(days_left) \/ Val(days_left) >= 0

\* The fetched emails whose promos extract_promos_from_emails hands to
\* categorize_promo, and that raises on them
CategorizationFails(email) ==
    LET parsed == parse_email(email.msg)
        found == ExtractPromos(email.parser, parsed.val[2])
    IN  /\ ~Falsy(parsed.val[1])
        /\ found.exc = "" /\ ~found.skip /\ found.val # << >>
        /\ Categorize(found.val, email.parser, env, CategoriesPath(main.config)).exc # ""

\* The number of positions of list that hold x
Count(list, x) == Cardinality({k \in 1..Len(list) : list[k] = x})

\* C18: no candidate is dropped for a missing field.  enrich_promo_data
\* returns, for each input record that is not expired, exactly one record made
\* of it, whichever of merchant, discount and expiration it has, so its output
\* is as long as the number of inputs that are not expired; and the promos of
\* an email whose categorization fails are in the list that
\* extract_promos_from_emails returns.
C18_NoCandidateDropped ==
    /\ result # NotCalled =>
          /\ Returned
          /\ Len(Output) = Cardinality({k \in 1..Len(promos) : NotExpiredAt(promos[k], result.at)})
          /\ \A k \in 1..Len(promos) :
                LET p == promos[k] IN
                Cardinality({i \in 1..Len(Output) : FromPromo(Output[i], p)})
                   = IF NotExpiredAt(p, result.at) THEN Count(promos, p) ELSE 0
    /\ main.pc # "idle" /\ main.extracted.exc = "" =>
          \A k \in 1..Len(main.emails) :
             CategorizationFails(main.emails[k]) =>
                LET found == ExtractPromos(main.emails[k].parser,
                                           parse_email(main.emails[k].msg).val[2]).val
                IN  \A j \in 1..Len(found) :
                       Count(main.extracted.val, found[j]) >= 1

\* A record with nothing but a code came out of enrich_promo_data
C18_Witness ==
    /\ Returned
    /\ Len(promos) = 1
    /\ DOMAIN promos[1] = {"code"}
    /\ Len(Output) = 1


\* C19 as the spec states it: when the merchant of a candidate is empty or
\* absent, the merchant for display of its enriched record is a placeholder
\* or a fallback name that is not the empty string.
C19_DisplayMerchantNotEmpty ==
    Returned =>
        \A i \in 1..Len(Output) :
            Falsy(Get(Output[i], "merchant", "")) => Output[i].display_merchant # ""


\* The calls of main that come before save_results
BeforeSave ==
    {"validate_setup", "load_config", "get_gmail_service", "fetch_promo_emails",
     "extract_promos_from_emails"}

\* C20: main writes the results at most once, and only when
\* extract_promos_from_emails has returned for all the fetched emails: what
\* is written is the list it returned.  While main is in an earlier step, and
\* when it was left from one by an error, by an interrupt or because no email
\* was found, nothing has been written.
C20_WrittenOnceAfterExtraction ==
    /\ Len(files) <= 1
    /\ files # << >> =>
          /\ main.pc \in {"print_summary", "done"}
          /\ main.emails = fetch_promo_emails(env, inbox).val /\ main.emails # << >>
          /\ main.extracted = extract_promos_from_emails(main.emails, main.config, env)
          /\ main.extracted.exc = ""
          /\ files[1].promos = main.extracted.val
    /\ main.pc \in BeforeSave => files = << >>
    /\ (main.pc = "done" /\ (main.emails = << >> \/ main.extracted.exc # "")) => files = << >>

\* Two emails were fetched, extraction went through both, and the one write
\* of the run has their promos
C20_Witness ==
    /\ main.pc = "done" /\ main.exit = "return"
    /\ Len(main.emails) = 2
    /\ Len(files) = 1 /\ files[1].complete
    /\ Len(files[1].promos) = 2

-----------------------------------------------------------------------------
(* api_server.py and the rest of database.py: user records, the promo     *)
(* operations, and POST /api/scan.  Every db.commit() is a step of its     *)
(* own: two requests served by two workers on the same database file can   *)
(* be anywhere between their commits.                                      *)


\* The requests that may be in progress at once
Requests == {"r1", "r2"}

\* raise HTTPException(status_code=..., detail=...)
HTTPException(status_code, detail) == [status_code |-> status_code, detail |-> detail]

\* "except Exception as e: raise HTTPException(status_code=500, detail=str(e))"
\* with no "except HTTPException: raise" before it: HTTPException is an
\* Exception, so the one raised inside the try block is replaced
ExceptException(e) == [status_code |-> 500, detail |-> "str(e)", cause |-> e]

\* Positions of the rows of user_id, and of those with the code
RowsOf(rows, user_id) == {k \in 1..Len(rows) : rows[k].user_id = user_id}
RowsWithCode(rows, user_id, code) == {k \in RowsOf(rows, user_id) : rows[k].code = code}

\* get_promo_by_code: the position of the first such row, 0 for None
get_promo_by_code(rows, user_id, code) ==
    IF RowsWithCode(rows, user_id, code) = {} THEN 0
    ELSE CHOOSE k \in RowsWithCode(rows, user_id, code) :
             \A j \in RowsWithCode(rows, user_id, code) : k <= j

\* mark_promo_used reaching every row with the code, whoever owns it
mark_promo_used_AnyUser(rows, user_id, code) ==
    [k \in 1..Len(rows) |->
        IF rows[k].code = code THEN [rows[k] EXCEPT !.is_used = TRUE] ELSE rows[k]]

\* mark_promo_used: the table after the call
mark_promo_used(rows, user_id, code) ==
    LET promo == get_promo_by_code(rows, user_id, code) IN
    IF promo # 0 THEN [rows EXCEPT ![promo].is_used = TRUE] ELSE rows

\* rows without the row at position k
Without(rows, k) == [j \in 1..(Len(rows) - 1) |-> IF j < k THEN rows[j] ELSE rows[j + 1]]

\* delete_promo: [ret, rows]
delete_promo(rows, user_id, code) ==
    LET promo == get_promo_by_code(rows, user_id, code) IN
    IF promo # 0 THEN [ret |-> TRUE, rows |-> Without(rows, promo)]
    ELSE [ret |-> FALSE, rows |-> rows]

\* delete_all_user_promos reaching every user's rows
delete_all_user_promos_Everyone(rows, user_id) == << >>

\* delete_all_user_promos: the table after the commit
delete_all_user_promos(rows, user_id) == SelectSeq(rows, LAMBDA row : row.user_id # user_id)

\* PromoCode.days_left <= 7 in SQL: not true of NULL
AtMost7(days_left) == ~IsNone(days_left) /\ Val(days_left) <= 7

\* get_promo_stats counting every row with no days_left as expiring soon
get_promo_stats_NullIsSoon(rows, user_id) ==
    LET all_promos == RowsOf(rows, user_id)
        active == {k \in all_promos : rows[k].is_expired = FALSE}
    IN  [total_promos   |-> Cardinality(all_promos),
         active_promos  |-> Cardinality(active),
         expired_promos |-> Cardinality({k \in all_promos : rows[k].is_expired = TRUE}),
         used_promos    |-> Cardinality({k \in all_promos : rows[k].is_used = TRUE}),
         expiring_soon  |-> Cardinality({k \in active : IsNone(rows[k].days_left)
                                                         \/ Val(rows[k].days_left) <= 7}),
         categories     |-> [cat \in {rows[k].category : k \in active} |->
                               Cardinality({k \in active : rows[k].category = cat})]]

\* get_promo_stats
get_promo_stats(rows, user_id) ==
    LET all_promos == RowsOf(rows, user_id)
        active == {k \in all_promos : rows[k].is_expired = FALSE}
    IN  [total_promos   |-> Cardinality(all_promos),
         active_promos  |-> Cardinality(active),
         expired_promos |-> Cardinality({k \in all_promos : rows[k].is_expired = TRUE}),
         used_promos    |-> Cardinality({k \in all_promos : rows[k].is_used = TRUE}),
         expiring_soon  |-> Cardinality({k \in active : AtMost7(rows[k].days_left)}),
         categories     |-> [cat \in {rows[k].category : k \in active} |->
                               Cardinality({k \in active : rows[k].category = cat})]]

\* The records a caller of the promo operations persists: an expired offer,
\* and a record with nothing but its code, which is a code of the scan
StoreData ==
    {[code |-> "SAVE25NOW", merchant |-> "Nordstrom", discount |-> "40% off",
      category |-> "Retail", expiration |-> "10/17/2025", days_left |-> Some(0 - 2),
      urgency_text |-> "Expired", urgency_class |-> "urgency-expired", is_expired |-> TRUE],
     [code |-> "FALL40"]}

Codes == {"FALL40", "SAVE25NOW"}

NoRequest == [pc |-> "none"]

ApiUnchanged == UNCHANGED <<now, promos, result, exp_str, exp_date, urgency,
                            discount_str, discount_value, env, inbox, main, files,
                            demo, batch, dedup_calls>>

\* POST /api/users
CreateNewUser ==
    /\ \E u \in Users :
          /\ u \notin api.users
          /\ api' = [api EXCEPT !.users = api.users \cup {u}]
    /\ UNCHANGED db
    /\ ApiUnchanged

\* POST /api/scan, up to delete_all_user_promos: get_user and the 404
ScanGetUser ==
    /\ \E r \in Requests, u \in Users :
          /\ api.scans[r] = NoRequest
          /\ api' = [api EXCEPT !.scans[r] =
                        IF u \notin api.users
                        THEN [pc |-> "done", user_id |-> u,
                              response |-> ExceptException(HTTPException(404, "User not found"))]
                        ELSE [pc |-> "delete_all_user_promos", user_id |-> u]]
    /\ UNCHANGED db
    /\ ApiUnchanged

\* delete_all_user_promos(db, request.user_id) and its commit
ScanDeleteAll ==
    /\ \E r \in Requests :
          /\ api.scans[r].pc = "delete_all_user_promos"
          /\ db' = delete_all_user_promos(db, api.scans[r].user_id)
          /\ api' = [api EXCEPT !.scans[r].pc = "bulk_insert_promos"]
    /\ ApiUnchanged

\* inserted_count = bulk_insert_promos(db, request.user_id, sample_promos)
ScanBulkInsert ==
    /\ \E r \in Requests :
          /\ api.scans[r].pc = "bulk_insert_promos"
          /\ db' = bulk_insert_promos(db, api.scans[r].user_id, SamplePromos)
          /\ api' = [api EXCEPT !.scans[r] =
                        [pc |-> "get_promo_stats", user_id |-> api.scans[r].user_id,
                         inserted_count |-> Len(SamplePromos)]]
    /\ ApiUnchanged

\* stats = get_promo_stats(db, request.user_id); return ScanResponse(...)
ScanRespond ==
    /\ \E r \in Requests :
          /\ api.scans[r].pc = "get_promo_stats"
          /\ LET stats == get_promo_stats(db, api.scans[r].user_id) IN
             api' = [api EXCEPT !.scans[r] =
                        [pc |-> "done", user_id |-> api.scans[r].user_id,
                         response |-> [status_code |-> 200, success |-> TRUE,
                                       total_promos |-> api.scans[r].inserted_count,
                                       active_promos |-> stats.active_promos,
                                       expiring_soon |-> stats.expiring_soon,
                                       categories |-> DOMAIN stats.categories]]]
    /\ UNCHANGED db
    /\ ApiUnchanged

\* create_promo_code(db, user_id, promo_data)
InsertPromo ==
    /\ Len(db) < MaxRows /\ NextId(db) <= MaxRows
    /\ \E u \in Users, promo_data \in StoreData :
          db' = create_promo_code(db, u, promo_data)
    /\ UNCHANGED api
    /\ ApiUnchanged

\* bulk_insert_promos(db, user_id, promos_list), called by itself
InsertPromos ==
    /\ \E u \in Users, n \in 2..(MaxRows - Len(db)) :
          /\ NextId(db) + n - 1 <= MaxRows
          /\ \E promos_list \in [1..n -> StoreData] :
                db' = bulk_insert_promos(db, u, promos_list)
    /\ UNCHANGED api
    /\ ApiUnchanged

\* mark_promo_used(db, user_id, code)
MarkPromoUsed ==
    /\ \E u \in Users, code \in Codes : db' = mark_promo_used(db, u, code)
    /\ UNCHANGED api
    /\ ApiUnchanged

\* delete_promo(db, user_id, code)
DeletePromo ==
    /\ \E u \in Users, code \in Codes : db' = delete_promo(db, u, code).rows
    /\ UNCHANGED api
    /\ ApiUnchanged

\* delete_all_user_promos(db, user_id), called by itself
DeleteAllUserPromos ==
    /\ \E u \in Users : db' = delete_all_user_promos(db, u)
    /\ UNCHANGED api
    /\ ApiUnchanged

\* The server with no user, no promo and none of the requests made yet
InitScan ==
    /\ now = StartClock
    /\ db = << >>
    /\ api = [users |-> {}, scans |-> [r \in Requests |-> NoRequest]]
    /\ env = << >> /\ inbox = << >> /\ files = << >>
    /\ main = [pc |-> "idle"] /\ demo = [pc |-> "idle"]
    /\ batch = << >> /\ dedup_calls = << >>
    /\ IdleEnrich /\ IdleUrgency /\ IdleDiscount

\* SpecScan: scan requests, of one user or of two, and nothing else
NextScan == CreateNewUser \/ ScanGetUser \/ ScanDeleteAll \/ ScanBulkInsert \/ ScanRespond

SpecScan == InitScan /\ [][NextScan]_vars

\* SpecApi: the requests and the promo operations of database.py
NextApi ==
    \/ ScanGetUser \/ ScanDeleteAll \/ ScanBulkInsert \/ ScanRespond
    \/ InsertPromo \/ InsertPromos \/ MarkPromoUsed \/ DeletePromo \/ DeleteAllUserPromos

\* ... with one scan request only, and a record for every user
InitStore ==
    /\ now = StartClock
    /\ db = << >>
    /\ api = [users |-> Users,
              scans |-> [r \in Requests |-> IF r = "r1" THEN NoRequest ELSE [pc |-> "never"]]]
    /\ env = << >> /\ inbox = << >> /\ files = << >>
    /\ main = [pc |-> "idle"] /\ demo = [pc |-> "idle"]
    /\ batch = << >> /\ dedup_calls = << >>
    /\ IdleEnrich /\ IdleUrgency /\ IdleDiscount

SpecApi == InitStore /\ [][NextApi]_vars


-----------------------------------------------------------------------------
(* Properties of the stored promo records (SpecApi) *)

Ids(rows) == {rows[k].id : k \in 1..Len(rows)}
RowWithId(rows, id) == rows[CHOOSE k \in 1..Len(rows) : rows[k].id = id]

\* The records that a step turns from not used to used, and back
BecomeUsed ==
    {id \in Ids(db) \cap Ids(db') :
        ~RowWithId(db, id).is_used /\ RowWithId(db', id).is_used}
BecomeUnused ==
    {id \in Ids(db) \cap Ids(db') :
        RowWithId(db, id).is_used /\ ~RowWithId(db', id).is_used}

\* C21: a record is inserted with is_used false; a step turns is_used to
\* true for one record only, the first one of a user and code, with the rest
\* of the table as it was, which is what mark_promo_used does; and no step
\* turns is_used of a record from true to false.
C21_IsUsedOnlyByMark ==
    [][/\ \A id \in Ids(db') \ Ids(db) : ~RowWithId(db', id).is_used
       /\ BecomeUnused = {}
       /\ BecomeUsed # {} =>
             \E k \in 1..Len(db) :
                /\ BecomeUsed = {db[k].id}
                /\ db' = [db EXCEPT ![k].is_used = TRUE]
                /\ \A j \in 1..(k - 1) :
                      ~(db[j].user_id = db[k].user_id /\ db[j].code = db[k].code)]_vars

\* One user's FALL40 is used while the other user's FALL40 is not
C21_Witness ==
    \E i, j \in 1..Len(db) :
        /\ db[i].code = db[j].code /\ db[i].user_id # db[j].user_id
        /\ db[i].is_used /\ ~db[j].is_used


UserRows(rows, user_id) == SelectSeq(rows, LAMBDA row : row.user_id = user_id)

\* C24: a step made for one user leaves the stored records of every other
\* user as they were: a step of a scan request leaves the rows of all users
\* but the request's, and a promo operation changes the rows of one user at
\* most, whatever steps of other users come between.
C24_OtherUsersUntouched ==
    [][/\ \A r \in Requests :
             api'.scans[r] # api.scans[r] =>
                 \A v \in Users \ {api'.scans[r].user_id} :
                     UserRows(db', v) = UserRows(db, v)
       /\ \E u \in Users :
             \A v \in Users \ {u} : UserRows(db', v) = UserRows(db, v)]_vars

\* A scan of one user is done, its delete and insert made, and the record
\* another user stored before it is still there
C24_Witness ==
    \E i, j \in 1..Len(db) :
        /\ api.scans["r1"].pc = "done"
        /\ db[i].user_id = api.scans["r1"].user_id /\ db[i].code = "PRESALE"
        /\ db[j].user_id # db[i].user_id /\ db[j].code = "SAVE25NOW"
        /\ db[j].id < db[i].id


\* The sum of the values of a dictionary of counts
RECURSIVE SumOfCounts(_)
SumOfCounts(counts) ==
    IF DOMAIN counts = {} THEN 0
    ELSE LET cat == CHOOSE c \in DOMAIN counts : TRUE IN
         counts[cat] + SumOfCounts([c \in DOMAIN counts \ {cat} |-> counts[c]])

\* The rows of a user that are not expired and have no days_left
ActiveUnknown(rows, user_id) ==
    {k \in RowsOf(rows, user_id) : ~rows[k].is_expired /\ IsNone(rows[k].days_left)}

\* C30: in every store and for every user the statistics add up:
\* total_promos = active_promos + expired_promos, expiring_soon is at most
\* active_promos, the category counts sum to active_promos, and no record
\* with unknown days_left is among those expiring soon.
C30_StatsAddUp ==
    \A u \in Users :
        LET stats == get_promo_stats(db, u) IN
        /\ stats.total_promos = stats.active_promos + stats.expired_promos
        /\ stats.expiring_soon <= stats.active_promos
        /\ SumOfCounts(stats.categories) = stats.active_promos
        /\ stats.expiring_soon + Cardinality(ActiveUnknown(db, u)) <= stats.active_promos

\* One user holds an expired record and an active one of unknown days_left,
\* none expiring soon; the other holds a scan's records, one expiring soon
C30_Witness ==
    \E u, v \in Users :
        /\ get_promo_stats(db, u).expired_promos = 1
        /\ get_promo_stats(db, u).active_promos = 1
        /\ ActiveUnknown(db, u) # {}
        /\ get_promo_stats(db, u).expiring_soon = 0
        /\ get_promo_stats(db, v).active_promos = 3
        /\ get_promo_stats(db, v).expiring_soon = 1
        /\ ActiveUnknown(db, v) # {}
        /\ Cardinality(DOMAIN get_promo_stats(db, v).categories) = 3


\* C28: after delete_promo(user, code) has returned True, no stored record
\* of that user has that code: get_promo_by_code finds nothing.
C28_DeletedCodeIsGone ==
    [][\A u \in Users, code \in Codes :
          (/\ delete_promo(db, u, code).ret
           /\ db' = delete_promo(db, u, code).rows
           /\ api' = api)
          => get_promo_by_code(db', u, code) = 0]_vars


-----------------------------------------------------------------------------
(* Properties of POST /api/scan (SpecScan) *)

\* C25: a scan request for a user_id with no user record is answered with
\* status 404 and "User not found", and its handling neither deletes nor
\* inserts a promo record.
C25_UnknownUserIs404 ==
    /\ [](\A r \in Requests :
             (api.scans[r].pc = "done" /\ api.scans[r].response.status_code # 200)
             => /\ api.scans[r].response.status_code = 404
                /\ api.scans[r].response.detail = "User not found")
    /\ [][\A r \in Requests, u \in Users \ api.users :
             (api.scans[r] = NoRequest /\ api'.scans[r] # NoRequest
                  /\ api'.scans[r].user_id = u)
             => db' = db /\ api'.scans[r].pc = "done"]_vars


\* Every request has been answered or was never made
AllAnswered == \A r \in Requests : api.scans[r].pc \in {"none", "done"}

\* The users with a scan that has run to its response
Scanned == {api.scans[r].user_id : r \in {q \in Requests : api.scans[q].pc = "done"
                                             /\ api.scans[q].response.status_code = 200}}

\* C26: when the scan requests of a user have completed, in whichever order
\* their steps were taken, the user's stored promos are the result set of one
\* scan, each scanned code stored once.
C26_OneResultSet ==
    AllAnswered =>
        \A u \in Scanned :
            /\ Len(UserRows(db, u)) = Len(SamplePromos)
            /\ \A i \in 1..Len(SamplePromos) :
                  Cardinality(RowsWithCode(db, u, SamplePromos[i].code)) = 1


-----------------------------------------------------------------------------
(* SpecOauth: /api/auth/start and /api/auth/callback on oauth_states *)

\* The state tokens the authorization URLs carry are 1..MaxStates, each
\* generated once; 0 stands for a callback with no state parameter
StateParams == 0..MaxStates

\* oauth_states without the key state: "del oauth_states[state]"
Del(states, state) == [s \in DOMAIN states \ {state} |-> states[s]]

\* GET /api/auth/start: with credentials.json in place the flow is created
\* and oauth_states[state] stored; without it the 500 of the handler
StartOauth ==
    /\ api.issued < MaxStates
    /\ \E u \in Users, credentials \in BOOLEAN :
          IF credentials
          THEN LET state == api.issued + 1 IN
               api' = [api EXCEPT
                          !.issued = state,
                          !.oauth_states =
                              [s \in DOMAIN api.oauth_states \cup {state} |->
                                  IF s = state THEN [user_id |-> u, timestamp |-> now]
                                  ELSE api.oauth_states[s]],
                          !.started = [status_code |-> 200, state |-> state]]
          ELSE api' = [api EXCEPT !.started = ExceptException(HTTPException(500,
                           "OAuth credentials not configured. Admin needs to set up credentials.json"))]
    /\ UNCHANGED db
    /\ ApiUnchanged

\* GET /api/auth/callback with the parameters code, state and error; exchanged
\* tells whether exchange_code_for_token, get_user_email and the database
\* calls return or one of them raises
OauthCallback ==
    /\ \E code \in {None, "4/0Ab"}, state \in StateParams,
          error \in {None, "access_denied"}, exchanged \in BOOLEAN :
          LET request == [code |-> code, state |-> state, error |-> error] IN
          IF error # None
          THEN api' = [api EXCEPT !.callback =
                          [request |-> request,
                           response |-> [status_code |-> 200, success |-> FALSE]]]
          ELSE IF code = None \/ state = 0
          THEN api' = [api EXCEPT !.callback =
                          [request |-> request,
                           response |-> ExceptException(HTTPException(400,
                                            "Missing code or state"))]]
          ELSE IF state \notin DOMAIN api.oauth_states
          THEN api' = [api EXCEPT !.callback =
                          [request |-> request,
                           response |-> ExceptException(HTTPException(400,
                                            "Invalid state - may have expired"))]]
          ELSE IF ~exchanged
          THEN api' = [api EXCEPT !.callback =
                          [request |-> request,
                           response |-> ExceptException([raised |-> "exchange_code_for_token"])]]
          ELSE api' = [api EXCEPT
                          !.users = api.users \cup {api.oauth_states[state].user_id},
                          !.oauth_states = Del(api.oauth_states, state),
                          !.callback =
                              [request |-> request,
                               response |-> [status_code |-> 200, success |-> TRUE,
                                             user_id |-> api.oauth_states[state].user_id]]]
    /\ UNCHANGED db
    /\ ApiUnchanged

\* The server with oauth_states = {} and no request handled yet
InitOauth ==
    /\ now = StartClock
    /\ db = << >>
    /\ api = [users |-> {}, scans |-> [r \in Requests |-> [pc |-> "never"]],
              oauth_states |-> << >>, issued |-> 0,
              started |-> NoRequest, callback |-> NoRequest]
    /\ env = << >> /\ inbox = << >> /\ files = << >>
    /\ main = [pc |-> "idle"] /\ demo = [pc |-> "idle"]
    /\ batch = << >> /\ dedup_calls = << >>
    /\ IdleEnrich /\ IdleUrgency /\ IdleDiscount

NextOauth == StartOauth \/ OauthCallback

\* Every request that can be made is handled in the end
SpecOauth ==
    InitOauth /\ [][NextOauth]_vars /\ WF_vars(StartOauth) /\ WF_vars(OauthCallback)


\* The keys of oauth_states
Stored == DOMAIN api.oauth_states

\* The step is a callback answered with success
Accepted ==
    /\ api'.callback # api.callback
    /\ api'.callback.response.status_code = 200
    /\ api'.callback.response.success

\* Acceptance needs a stored state and removes it
SingleUse ==
    [][Accepted => /\ api'.callback.request.state \in Stored
                   /\ DOMAIN api'.oauth_states = Stored \ {api'.callback.request.state}]_vars

\* C27: an OAuth state is used once and does not stay: a callback is
\* accepted only for a state that start_oauth stored and no callback has
\* consumed, the accepted callback removes it, no state is stored twice, and
\* every state stored is removed in the end, also when the exchange of the
\* code fails or the callback reports an error.
C27_StateUsedOnceAndRemoved ==
    /\ SingleUse
    /\ [][DOMAIN api'.oauth_states \ Stored \subseteq {api.issued + 1}]_vars
    /\ \A s \in 1..MaxStates : (s \in Stored) ~> (s \notin Stored)


-----------------------------------------------------------------------------
(* SpecAuth: main up to get_gmail_service, over what token.json holds and
   what the refresh, the authorization flow and build do *)

AuthEnvs ==
    {[GoodEnv EXCEPT !.present = AllFiles \ missing, !.token = token,
                     !.refresh = refresh, !.flow = flow, !.build = build] :
        missing \in SUBSET {"credentials.json", "token.json"},
        token \in TokenContents,
        refresh \in {"ok", "RefreshError"},
        flow \in {"ok", "fails"},
        build \in {"ok", "fails"}}

InitAuth ==
    /\ now = StartClock
    /\ env \in AuthEnvs
    /\ inbox = << >>
    /\ main = MainStart
    /\ files = << >>
    /\ demo = [pc |-> "idle"] /\ batch = << >> /\ dedup_calls = << >>
    /\ IdleApi
    /\ IdleEnrich /\ IdleUrgency /\ IdleDiscount /\ IdleDb

NextAuth == ValidateSetup \/ LoadConfig \/ GetGmailService

SpecAuth == InitAuth /\ [][NextAuth]_vars

\* get_gmail_service has returned a service, or has raised
ServiceReturned == main.auth # NotAuthenticated /\ main.pc = "fetch_promo_emails"
ServiceRaised == main.auth # NotAuthenticated /\ main.exit = "exit 1"

\* C29: get_gmail_service returns a service, and writes token.json, only
\* with valid credentials (valid as saved, refreshed, or newly authorized);
\* in every other case it raises SetupError and has not written token.json.
C29_OnlyValidCredentials ==
    /\ (ServiceReturned \/ main.auth.written) => main.auth.creds = "valid"
    /\ ServiceRaised => ~main.auth.written

=============================================================================
